--------------------------- MODULE FilterIndexProofs ---------------------------
(***************************************************************************)
(* The filter file, for every set of conditions, every size of views, files *)
(* and steps, and every number of records, filters and faults.  One scan is *)
(* under way at a time, because the progress dialog holds the window back;  *)
(* it begins after the last record that was kept and goes up one record at  *)
(* a time.  What it stores goes where the next entry belongs, because the   *)
(* view to write through starts where its labels say, even when the file    *)
(* could not be extended: then the view is full, and the next entry tries   *)
(* to extend the file again.  A failed call loses the position and the scan *)
(* stores again what it had stored; that is why the entries are in order    *)
(* only without faults, and why the file's size is bounded with them.       *)
(***************************************************************************)
EXTENDS FilterIndex, TLAPS

\* The ranges of the variables that no thread's control point decides.
Ranges ==
  /\ count \in 0 .. MaxRecords
  /\ eof \in Nat /\ found \in Nat /\ LastScanned \in -1 .. MaxRecords /\ rlen \in Nat
  /\ number \in [Threads -> 0 .. MaxRecords] /\ end \in [Threads -> Nat]
  /\ asked \in Nat /\ got \in Int
  /\ attaches \in 0 .. MaxAttaches /\ faults \in 0 .. MaxFaults

\* The filter file, and the records that its condition matches.
Files == file \in [Places -> Int] /\ condition \subseteq 0 .. MaxRecords - 1

\* Where the two threads can be: only the window copies, only the other waits
\* between rounds.
Labels ==
  /\ pc \in [Threads -> {"idle", "scan", "write", "copy", "copied", "crashed", "wait",
                         "round", "scanned", "exited"}]
  /\ pc[Window] \in {"idle", "scan", "write", "copy", "copied", "crashed", "wait"}
  /\ pc[Worker] \in {"round", "scan", "write", "scanned", "exited"}

\* The mappings that are written and read through.
Views == wmap \in View /\ rmap \in View

\* The progress dialog never counts more than it set out to scan.
Dialogs ==
  /\ dialog \in [open : BOOLEAN, toScan : Nat, scanned : Nat, cancel : BOOLEAN]
  /\ dialog.scanned <= dialog.toScan

\* The window and the work thread take turns.
Turns ==
  /\ attached \in BOOLEAN
  /\ dialog.open => attached /\ pc[Window] \in {"idle", "wait", "crashed"}
  /\ ~dialog.open => pc[Worker] = "exited"
  /\ pc[Window] = "wait" => dialog.open
  /\ pc[Window] \in {"scan", "write", "copy", "copied"} => attached

\* The view to write through starts where its labels say, and the place after
\* the last entry is in it or the next after it; without a section it is full.
WriteView ==
  /\ wmap.first = wmap.offset /\ wmap.last = wmap.first + ViewUnit - 1
  /\ wmap.first <= found /\ found <= wmap.last + 1
  /\ wmap.section \in {0, eof} /\ eof >= FileIncrement
  /\ wmap.section = 0 => found = wmap.last + 1 /\ faults > 0

\* A scan is past the last record kept and within the log; what it writes
\* matches.
Positions ==
  /\ LastScanned < count
  /\ \A t \in Threads : Scanning(t) => LastScanned < number[t] /\ number[t] <= count
  /\ \A t \in Threads : pc[t] = "write" => number[t] < count /\ number[t] \in condition

\* Each fault lets a scan store once more what it stored before.
Spent == faults * MaxRecords

NoScan == \A t \in Threads : ~Scanning(t)

\* The file holds no more entries than records were passed, but for the faults.
Budget ==
  /\ \A t \in Threads : Scanning(t) => found <= number[t] + Spent
  /\ NoScan \/ wmap.section = 0 => found <= LastScanned + 1 + Spent

\* The filter file has an entry for record s.
Stored(s) == \E i \in 0 .. found - 1 : file[i] = s

\* The file has matches only, and all those among the records passed.
Contents ==
  attached =>
    /\ \A i \in 0 .. found - 1 : file[i] \in condition
    /\ \A s \in condition : s <= LastScanned => Stored(s)
    /\ \A t \in Threads : Scanning(t) => \A s \in condition : s < number[t] => Stored(s)

\* Without faults the entries are in the order of the records.
Ordered ==
  attached /\ faults = 0 =>
    /\ \A t \in Threads : Scanning(t) => \A i \in 0 .. found - 1 : file[i] < number[t]
    /\ NoScan => \A i \in 0 .. found - 1 : file[i] <= LastScanned
    /\ \A i, j \in 0 .. found - 1 : i < j => file[i] < file[j]

\* The window reads entries that exist, and the file has only matches.
Reading ==
  /\ rmap.offset <= rmap.first
  /\ pc[Window] = "copy" => asked < found
  /\ pc[Window] # "copied" => got = Unread
  /\ got # Unread => got \in condition

\* The inductive invariant.
IInv ==
  /\ Ranges /\ Files /\ Labels /\ Views /\ Dialogs /\ Turns
  /\ WriteView /\ Positions /\ Budget
  /\ Contents /\ Ordered /\ Reading
-----------------------------------------------------------------------------
\* The multiples of the bound on the records.
LEMMA SpentMore ==
  /\ Spent \in Nat \/ faults \notin Nat
  /\ faults \in Nat => (faults + 1) * MaxRecords = Spent + MaxRecords
<1>1. MaxRecords \in Nat
  BY SizesAssumption
<1>2. \A m, n \in Nat : n * m \in Nat /\ (n + 1) * m = n * m + m
  OBVIOUS
<1> QED
  BY <1>1, <1>2 DEF Spent

\* The share of the faults and one pass over the log fit in the file.
LEMMA SpentBound ==
  ASSUME faults \in 0 .. MaxFaults
  PROVE  Spent \in Nat /\ Spent + MaxRecords <= (MaxFaults + 1) * MaxRecords
<1>1. MaxRecords \in Nat /\ MaxFaults \in Nat
  BY SizesAssumption
<1>2. \A m, n, f \in Nat : f <= n => f * m \in Nat /\ f * m <= n * m
  <2>1. \A m, n, d \in Nat : (n + d) * m = n * m + d * m /\ d * m \in Nat
    OBVIOUS
  <2>2. \A n, f \in Nat : f <= n => n - f \in Nat /\ n = f + (n - f)
    OBVIOUS
  <2> QED
    BY <2>1, <2>2
<1>3. \A m, n \in Nat : (n + 1) * m = n * m + m /\ n * m \in Nat
  OBVIOUS
<1> QED
  BY <1>1, <1>2, <1>3 DEF Spent

\* The file has a place for the next entry.
LEMMA FoundInFile ==
  ASSUME Ranges, Positions, Budget PROVE found \in Places
<1>1. MaxRecords \in Nat /\ MaxFaults \in Nat
  BY SizesAssumption
<1>2. Spent \in Nat /\ Spent + MaxRecords <= (MaxFaults + 1) * MaxRecords
  BY SpentBound DEF Ranges
<1>3. found <= MaxRecords + Spent
  <2>1. CASE NoScan
    BY <1>1, <1>2, <2>1 DEF Budget, Positions, Ranges
  <2>2. CASE ~NoScan
    BY <1>1, <1>2, <2>2 DEF Budget, Positions, Ranges, NoScan
  <2> QED
    BY <2>1, <2>2
<1>4. (MaxFaults + 1) * MaxRecords \in Int
  BY <1>1
<1>5. found \in Nat /\ found <= (MaxFaults + 1) * MaxRecords
  BY <1>1, <1>2, <1>3, <1>4 DEF Ranges
<1> QED
  BY <1>4, <1>5 DEF Places

\* The places of the entries are places of the file other than the next.
LEMMA EntriesInFile ==
  ASSUME Ranges, Positions, Budget PROVE \A i \in 0 .. found - 1 : i \in Places /\ i # found
<1> DEFINE K == (MaxFaults + 1) * MaxRecords
<1>1. K \in Nat
  BY SizesAssumption
<1>2. found \in 0 .. K
  BY FoundInFile DEF Places
<1> HIDE DEF K
<1>3. \A i \in 0 .. found - 1 : i \in 0 .. K /\ i # found
  BY <1>1, <1>2
<1> QED
  BY <1>3 DEF Places, K

\* Between 0 and the limits that are asked for, as long as any is left.
LEMMA Steps ==
  ASSUME Dialogs
  PROVE  /\ ToScan \in Nat
         /\ Min2(ScanStep, ToScan) \in Nat /\ Min2(ScanStep, ToScan) <= ToScan
BY SizesAssumption DEF Dialogs, ToScan, Min2

\* The timer asks for no negative number of records.
LEMMA TimerSteps ==
  ASSUME Ranges, Positions PROVE Min2(ComputeScanStep, TimerStep) \in Nat
BY SizesAssumption DEF Ranges, Positions, ComputeScanStep, Min2, NoSequence
-----------------------------------------------------------------------------
\* The dialog is what makes the window and the work thread take turns.
LEMMA TurnsStep ==
  ASSUME Labels, Dialogs, Turns, Next PROVE Turns'
<1> USE ThreadsAssumption DEF Turns, Labels, Threads, Goto, After
<1>1. CASE \E c \in Conditions : Attach(c)
  <2>1. attached' \in BOOLEAN
    BY <1>1 DEF Attach, CreateFilter, NoFilter
  <2>2. \/ dialog'.open /\ attached' /\ pc'[Window] = "idle"
        \/ dialog' = dialog /\ pc' = pc /\ ~dialog.open /\ pc[Window] = "idle"
    BY <1>1 DEF Attach, Idle, OpenDialog, NoDialog, CreateFilter
  <2> QED
    BY <2>1, <2>2
<1>2. CASE Detach
  BY <1>2 DEF Detach, Idle, NoFilter, scanVars
<1>3. CASE Timer
  BY <1>3 DEF Timer, Idle, BeginScan, filterVars
<1>4. CASE \E k \in 0 .. found - 1 : CopyFiltered(k)
  BY <1>4 DEF CopyFiltered, Idle, filterVars
<1>5. ASSUME NEW t \in Threads, ScanRecord(t) PROVE Turns'
  BY <1>5 DEF ScanRecord
<1>6. ASSUME NEW t \in Threads, StoreEntry(t) PROVE Turns'
  BY <1>6 DEF StoreEntry, Writing
<1>7. ASSUME NEW t \in Threads, SlideWriteView(t) PROVE Turns'
  BY <1>7 DEF SlideWriteView, Writing
<1>8. ASSUME NEW t \in Threads, ExtendFilterFile(t) PROVE Turns'
  BY <1>8 DEF ExtendFilterFile, Writing
<1>9. CASE ReadEntry \/ SlideReadView \/ ReopenReadFile \/ CopyReturn
  BY <1>9 DEF ReadEntry, SlideReadView, ReopenReadFile, CopyReturn, Copying, filterVars
<1>10. CASE WorkerRound
  BY <1>10 DEF WorkerRound, BeginScan, filterVars
<1>11. CASE WorkerNext
  <2>1. dialog'.open = dialog.open
    BY <1>11 DEF WorkerNext
  <2> QED
    BY <1>11, <2>1 DEF WorkerNext, filterVars
<1>12. CASE Publish \/ Cancel
  <2>1. dialog'.open = dialog.open /\ UNCHANGED <<pc, attached>>
    BY <1>12 DEF Publish, Cancel, filterVars, scanVars, Dialogs
  <2> QED
    BY <2>1
<1>13. CASE DialogTimer \/ DialogEnd
  BY <1>13 DEF DialogTimer, DialogEnd, NoDialog, filterVars
<1> QED
  BY <1>1, <1>2, <1>3, <1>4, <1>5, <1>6, <1>7, <1>8, <1>9, <1>10, <1>11, <1>12, <1>13
     DEF Next, ScanStepOf, CopyStep

\* Each thread goes from one of its control points to another.
LEMMA LabelsStep ==
  ASSUME Labels, Turns, Next PROVE Labels'
<1> USE ThreadsAssumption DEF Labels, Threads, Goto, After
<1>1. CASE \E c \in Conditions : Attach(c)
  BY <1>1 DEF Attach, OpenDialog
<1>2. CASE Timer \/ WorkerRound
  BY <1>2 DEF Timer, BeginScan, WorkerRound
<1>3. ASSUME NEW t \in Threads, ScanStepOf(t) PROVE Labels'
  BY <1>3 DEF ScanStepOf, ScanRecord, StoreEntry, SlideWriteView, ExtendFilterFile
<1>4. CASE CopyStep \/ \E k \in 0 .. found - 1 : CopyFiltered(k)
  BY <1>4 DEF CopyStep, ReadEntry, SlideReadView, ReopenReadFile, CopyReturn, CopyFiltered
<1>5. CASE Publish \/ Detach \/ Cancel
  BY <1>5 DEF Publish, Detach, Cancel, scanVars
<1>6. CASE WorkerNext \/ DialogTimer \/ DialogEnd
  BY <1>6 DEF WorkerNext, DialogTimer, DialogEnd
<1> QED
  BY <1>1, <1>2, <1>3, <1>4, <1>5, <1>6 DEF Next

\* The work thread counts no more than it scanned, which is within its limit.
LEMMA DialogsStep ==
  ASSUME Ranges, Dialogs, Next PROVE Dialogs'
<1> USE DEF Dialogs
<1>1. CASE \E c \in Conditions : Attach(c)
  <2>1. CASE dialog' = [NoDialog EXCEPT !.open = TRUE, !.toScan = count]
    <3>1. dialog' = [open |-> TRUE, toScan |-> count, scanned |-> 0, cancel |-> FALSE]
      BY <2>1 DEF NoDialog
    <3>2. count \in Nat
      BY DEF Ranges
    <3> QED
      BY <3>1, <3>2
  <2>2. CASE dialog' = dialog
    BY <2>2
  <2> QED
    BY <1>1, <2>1, <2>2 DEF Attach, OpenDialog
<1>2. CASE WorkerNext
  <2>1. dialog' = [dialog EXCEPT !.scanned = @ + Min2(ScanStep, ToScan)]
    BY <1>2 DEF WorkerNext
  <2>2. /\ dialog.scanned + Min2(ScanStep, ToScan) \in Nat
        /\ dialog.scanned + Min2(ScanStep, ToScan) <= dialog.toScan
    BY Steps DEF ToScan
  <2> QED
    BY <2>1, <2>2
<1>3. CASE Cancel
  BY <1>3 DEF Cancel
<1>4. CASE DialogEnd
  BY <1>4 DEF DialogEnd, NoDialog
<1>5. CASE UNCHANGED dialog
  BY <1>5
<1>6. ASSUME NEW t \in Threads, ScanStepOf(t) PROVE Dialogs'
  BY <1>5, <1>6 DEF ScanStepOf, ScanRecord, StoreEntry, SlideWriteView, ExtendFilterFile
<1>7. CASE Publish \/ Detach \/ Timer \/ WorkerRound \/ DialogTimer \/ CopyStep
           \/ \E k \in 0 .. found - 1 : CopyFiltered(k)
  BY <1>5, <1>7 DEF Publish, Detach, Timer, WorkerRound, DialogTimer, CopyStep, CopyFiltered,
     ReadEntry, SlideReadView, ReopenReadFile, CopyReturn
<1> QED
  BY <1>1, <1>2, <1>3, <1>4, <1>6, <1>7 DEF Next
-----------------------------------------------------------------------------
\* The other steps leave the filter, or the scan, alone.
Quiet == Publish \/ WorkerNext \/ Cancel \/ DialogTimer \/ DialogEnd

\* A new filter, or none, starts with nothing scanned.
LEMMA Restarted ==
  ASSUME Labels, Dialogs, Turns, (\E c \in Conditions : Attach(c)) \/ Detach
  PROVE  /\ found' = 0 /\ LastScanned' = NoSequence /\ file' = EmptyFile
         /\ condition' \in Conditions \cup {{}}
         /\ wmap' = FirstView /\ rmap' = FirstView /\ eof' = FileIncrement /\ rlen' = FileIncrement
         /\ NoScan' /\ pc'[Window] = "idle" /\ UNCHANGED <<count, number, end, asked, got>>
         /\ pc[Window] = "idle"
<1> USE ThreadsAssumption DEF Labels, Turns, Threads, NoScan, Scanning
<1>1. CASE Detach
  BY <1>1 DEF Detach, Idle, NoFilter, copyVars, scanVars
<1>2. ASSUME NEW c \in Conditions, Attach(c)
      PROVE  /\ found' = 0 /\ LastScanned' = NoSequence /\ file' = EmptyFile
             /\ condition' \in Conditions \cup {{}}
             /\ wmap' = FirstView /\ rmap' = FirstView /\ eof' = FileIncrement /\ rlen' = FileIncrement
  BY <1>2 DEF Attach, CreateFilter, NoFilter
<1>3. ASSUME NEW c \in Conditions, Attach(c)
      PROVE NoScan' /\ pc'[Window] = "idle" /\ UNCHANGED <<count, number, end, asked, got>>
            /\ pc[Window] = "idle"
  BY <1>3 DEF Attach, Idle, OpenDialog, copyVars
<1> QED
  BY <1>1, <1>2, <1>3

\* A scan that begins takes its first record after the last one kept.
LEMMA ScanBegun ==
  ASSUME Ranges, Labels, NEW t \in Threads, ~Scanning(t), NEW step, BeginScan(t, step)
  PROVE  \/ UNCHANGED <<number, end>> /\ ~Scanning(t)'
         \/ /\ pc'[t] = "scan" /\ LastScanned < count - 1
            /\ number' = [number EXCEPT ![t] = LastScanned + 1]
            /\ end' = [end EXCEPT ![t] = LastScanned + 1 + Min2(step, count - LastScanned)]
BY ThreadsAssumption, SizesAssumption DEF BeginScan, Ranges, Labels, Threads, Scanning, Goto,
       After

\* The window's timer and the work thread begin scans of their own.
LEMMA Begun ==
  ASSUME Ranges, Dialogs, Positions, Labels, Turns, Timer \/ WorkerRound
  PROVE  /\ UNCHANGED <<count, filterVars, asked, got, dialog, attaches, faults>>
         /\ \E t \in Threads :
              /\ pc[t] \in {"idle", "round"} /\ NoScan /\ \A u \in Threads : u # t => pc'[u] = pc[u]
              /\ \E step \in Nat : BeginScan(t, step)
<1> USE ThreadsAssumption DEF Labels, Turns, Threads, NoScan, Scanning, copyVars, boundVars
<1>1. CASE Timer
  BY <1>1, TimerSteps DEF Timer, Idle, BeginScan, Goto, After
<1>2. CASE WorkerRound
  BY <1>2, Steps DEF WorkerRound, BeginScan, Goto, After
<1> QED
  BY <1>1, <1>2

\* While one thread scans the other does not.
LEMMA OneScan ==
  ASSUME Labels, Turns, NEW t \in Threads, Scanning(t)
  PROVE  attached /\ pc[Window] \notin {"copy", "copied"} /\ \A u \in Threads : u # t => ~Scanning(u)
BY ThreadsAssumption DEF Labels, Turns, Threads, Scanning

\* Steps of a scan leave the rest alone.
LEMMA ScanKeeps ==
  ASSUME Ranges, Labels, Turns, NEW t \in Threads, ScanStepOf(t)
  PROVE  /\ UNCHANGED <<count, attached, condition, rmap, rlen, end, asked, got, dialog, attaches>>
         /\ Scanning(t) /\ NoScan' = ~Scanning(t)'
         /\ \A u \in Threads : u # t => pc'[u] = pc[u] /\ number'[u] = number[u]
<1> USE ThreadsAssumption DEF Labels, Turns, Threads, Scanning, NoScan, Goto, After, copyVars,
            boundVars
<1>1. CASE ScanRecord(t)
  BY <1>1 DEF ScanRecord, Ranges
<1>2. CASE StoreEntry(t)
  BY <1>2 DEF StoreEntry, Writing, Ranges
<1>3. CASE SlideWriteView(t)
  BY <1>3 DEF SlideWriteView, Writing
<1>4. CASE ExtendFilterFile(t)
  BY <1>4 DEF ExtendFilterFile, Writing
<1> QED
  BY <1>1, <1>2, <1>3, <1>4 DEF ScanStepOf

\* A quiet step leaves the filter file, its views and the two threads' scans.
LEMMA QuietKeeps ==
  ASSUME Labels, Quiet
  PROVE  /\ UNCHANGED <<filterVars, number, end, asked, got, attaches, faults>>
         /\ count' \in {count, count + 1} /\ (count' # count => count < MaxRecords)
         /\ \A t \in Threads : pc'[t] = pc[t] \/ (~Scanning(t) /\ ~Scanning(t)')
         /\ pc[Window] \in {"copy", "copied"} <=> pc'[Window] \in {"copy", "copied"}
         /\ pc[Window] \in {"copy", "copied"} => pc'[Window] = pc[Window]
<1> USE ThreadsAssumption DEF Labels, Threads, Scanning, Goto, copyVars, boundVars, scanVars
<1>1. CASE Publish \/ Cancel
  BY <1>1 DEF Publish, Cancel
<1>2. CASE WorkerNext \/ DialogTimer \/ DialogEnd
  BY <1>2 DEF WorkerNext, DialogTimer, DialogEnd
<1> QED
  BY <1>1, <1>2 DEF Quiet

\* Steps of a copy leave all but the view that is read through alone.
CopyActions == CopyStep \/ \E k \in 0 .. found - 1 : CopyFiltered(k)

LEMMA CopyKeeps ==
  ASSUME Labels, CopyActions
  PROVE  /\ UNCHANGED <<count, attached, condition, file, eof, found, LastScanned, wmap>>
         /\ UNCHANGED <<number, end, dialog, attaches>>
         /\ faults' \in {faults, faults + 1} /\ (faults' # faults => faults < MaxFaults)
         /\ pc'[Worker] = pc[Worker] /\ ~Scanning(Window) /\ ~Scanning(Window)'
<1> USE ThreadsAssumption DEF Labels, Threads, Scanning, Goto, filterVars, boundVars,
            scanVars, Fault, Copying
<1>1. CASE ReadEntry
  BY <1>1 DEF ReadEntry
<1>2. CASE SlideReadView
  BY <1>2 DEF SlideReadView
<1>3. CASE ReopenReadFile
  BY <1>3 DEF ReopenReadFile
<1>4. CASE CopyReturn
  BY <1>4 DEF CopyReturn
<1>5. CASE \E k \in 0 .. found - 1 : CopyFiltered(k)
  BY <1>5 DEF CopyFiltered, Idle
<1> QED
  BY <1>1, <1>2, <1>3, <1>4, <1>5 DEF CopyActions, CopyStep

\* Every step attaches or detaches, begins a scan, scans, copies or is quiet.
LEMMA NextCases ==
  Next <=> \/ (\E c \in Conditions : Attach(c)) \/ Detach
           \/ Timer \/ WorkerRound
           \/ \E t \in Threads : ScanStepOf(t)
           \/ CopyActions
           \/ Quiet
BY DEF Next, CopyActions, Quiet

\* The view to read through starts no later than its labels say.
LEMMA ReadPlace ==
  ASSUME Ranges, Views, Reading, Copying, SequenceMapped(rmap, asked)
  PROVE  rmap.offset + asked - rmap.first \in 0 .. found - 1
BY DEF Ranges, Views, View, Reading, Copying, SequenceMapped

\* Every action keeps the ranges.
LEMMA RangesStep ==
  ASSUME Ranges, Files, Labels, Views, Dialogs, Turns, Positions, Budget, Reading, Next
  PROVE  Ranges'
<1> USE SizesAssumption DEF Ranges
<1>1. CASE (\E c \in Conditions : Attach(c)) \/ Detach
  <2>1. attaches' \in 0 .. MaxAttaches /\ faults' \in 0 .. MaxFaults
    BY <1>1 DEF Attach, Detach, Fault, boundVars
  <2>2. LastScanned' = -1
    BY <1>1, Restarted DEF NoSequence
  <2> QED
    BY <1>1, <2>1, <2>2, Restarted
<1>2. CASE Timer \/ WorkerRound
  <2>1. PICK t \in Threads, step \in Nat : pc[t] \in {"idle", "round"} /\ BeginScan(t, step)
    BY <1>2, Begun
  <2>2. ~Scanning(t)
    BY <2>1 DEF Scanning
  <2>3. UNCHANGED <<number, end>> \/
        /\ LastScanned < count - 1
        /\ number' = [number EXCEPT ![t] = LastScanned + 1]
        /\ end' = [end EXCEPT ![t] = LastScanned + 1 + Min2(step, count - LastScanned)]
    BY <2>1, <2>2, ScanBegun
  <2>4. /\ LastScanned + 1 \in 0 .. MaxRecords \/ LastScanned >= count - 1
        /\ LastScanned < count - 1 => LastScanned + 1 + Min2(step, count - LastScanned) \in Nat
    BY DEF Min2
  <2>5. number' \in [Threads -> 0 .. MaxRecords] /\ end' \in [Threads -> Nat]
    BY <2>3, <2>4
  <2> QED
    BY <1>2, <2>5, Begun DEF filterVars
<1>3. ASSUME NEW t \in Threads, ScanStepOf(t) PROVE Ranges'
  <2>1. UNCHANGED <<count, rlen, end, asked, got, attaches>>
    BY <1>3, ScanKeeps
  <2>2. number[t] \in 0 .. MaxRecords /\ (pc[t] = "write" => number[t] < count)
    BY DEF Positions
  <2>3. CASE ScanRecord(t)
    BY <2>1, <2>2, <2>3 DEF ScanRecord, Fault
  <2>4. CASE StoreEntry(t)
    BY <2>1, <2>2, <2>4 DEF StoreEntry, Writing, boundVars
  <2>5. CASE SlideWriteView(t)
    BY <2>1, <2>5 DEF SlideWriteView, Fault
  <2>6. CASE ExtendFilterFile(t)
    BY <2>1, <2>6 DEF ExtendFilterFile, Fault
  <2> QED
    BY <1>3, <2>3, <2>4, <2>5, <2>6 DEF ScanStepOf
<1>4. CASE CopyActions
  <2>1. rlen' \in {rlen, eof}
    BY <1>4 DEF CopyActions, CopyStep, ReadEntry, SlideReadView, ReopenReadFile, CopyReturn,
           CopyFiltered, filterVars
  <2>2. asked' \in Nat
    BY <1>4 DEF CopyActions, CopyStep, ReadEntry, SlideReadView, ReopenReadFile, CopyReturn,
           CopyFiltered, copyVars
  <2>3. got' \in Int
    <3>1. CASE ReadEntry
      <4>1. rmap.offset + asked - rmap.first \in Places
        BY <1>4, <3>1, ReadPlace, FoundInFile DEF ReadEntry, Places
      <4> QED
        BY <3>1, <4>1 DEF ReadEntry, Files
    <3>2. CASE ~ReadEntry
      BY <1>4, <3>2 DEF CopyActions, CopyStep, SlideReadView, ReopenReadFile, CopyReturn,
             CopyFiltered, copyVars, Unread
    <3> QED
      BY <3>1, <3>2
  <2> QED
    BY <1>4, <2>1, <2>2, <2>3, CopyKeeps
<1>5. CASE Quiet
  BY <1>5, QuietKeeps DEF filterVars
<1> QED
  BY <1>1, <1>2, <1>3, <1>4, <1>5, NextCases

\* What is stored is a record of the condition, at a place of the file.
LEMMA FilesStep ==
  ASSUME Ranges, Files, Labels, Dialogs, Turns, Positions, Budget, Next PROVE Files'
<1> USE SizesAssumption DEF Files
<1>1. CASE (\E c \in Conditions : Attach(c)) \/ Detach
  BY <1>1, Restarted DEF EmptyFile, NoSequence
<1>2. CASE Timer \/ WorkerRound
  BY <1>2, Begun DEF filterVars
<1>3. ASSUME NEW t \in Threads, ScanStepOf(t) PROVE Files'
  <2>1. file' = file \/ \E i : file' = [file EXCEPT ![i] = number[t]]
    BY <1>3 DEF ScanStepOf, ScanRecord, StoreEntry, SlideWriteView, ExtendFilterFile
  <2>2. number[t] \in Int
    BY DEF Ranges
  <2>3. file' \in [Places -> Int]
    BY <2>1, <2>2
  <2> QED
    BY <1>3, <2>3, ScanKeeps
<1>4. CASE CopyActions
  BY <1>4, CopyKeeps
<1>5. CASE Quiet
  BY <1>5, QuietKeeps DEF filterVars
<1> QED
  BY <1>1, <1>2, <1>3, <1>4, <1>5, NextCases

\* Changing the fields of a view gives a view.
LEMMA ViewUpdates ==
  ASSUME NEW m \in View, NEW o \in Nat, NEW f \in Nat, NEW l \in Nat
  PROVE  /\ [m EXCEPT !.mapped = FALSE] \in View
         /\ [m EXCEPT !.mapped = FALSE, !.section = o] \in View
         /\ [m EXCEPT !.mapped = TRUE, !.offset = o, !.first = f, !.last = l] \in View
BY DEF View

\* The first view is one.
LEMMA FirstViewTyped == FirstView \in View
BY SizesAssumption DEF FirstView, View

\* Every action keeps the types of the two mappings.
LEMMA ViewsStep ==
  ASSUME Ranges, Labels, Views, Dialogs, Turns, Positions, Next PROVE Views'
<1> USE SizesAssumption DEF Views
<1>1. CASE (\E c \in Conditions : Attach(c)) \/ Detach
  BY <1>1, Restarted, FirstViewTyped
<1>2. CASE Timer \/ WorkerRound
  BY <1>2, Begun DEF filterVars
<1>3. ASSUME NEW t \in Threads, ScanStepOf(t) PROVE Views'
  <2>1. CASE ScanRecord(t) \/ StoreEntry(t)
    BY <2>1 DEF ScanRecord, StoreEntry
  <2>2. CASE SlideWriteView(t)
    <3>1. NextView \in Nat /\ found \in Nat /\ found + ViewUnit - 1 \in Nat
      BY DEF NextView, Ranges, View
    <3>2. \/ wmap' = [wmap EXCEPT !.mapped = FALSE]
          \/ wmap' = [wmap EXCEPT !.mapped = TRUE, !.offset = NextView,
                                  !.first = found, !.last = found + ViewUnit - 1]
      BY <2>2 DEF SlideWriteView
    <3>3. [wmap EXCEPT !.mapped = FALSE] \in View
      BY <3>1, ViewUpdates
    <3>4. [wmap EXCEPT !.mapped = TRUE, !.offset = NextView,
                       !.first = found, !.last = found + ViewUnit - 1] \in View
      BY <3>1, ViewUpdates
    <3>5. wmap' \in View
      BY <3>2, <3>3, <3>4, Zenon
    <3> QED
      BY <2>2, <3>5 DEF SlideWriteView
  <2>3. CASE ExtendFilterFile(t)
    <3>1. 0 \in Nat /\ eof + FileIncrement \in Nat
      BY DEF Ranges
    <3>2. \/ wmap' = wmap
          \/ \E n \in {0, eof + FileIncrement} : wmap' = [wmap EXCEPT !.mapped = FALSE, !.section = n]
      BY <2>3 DEF ExtendFilterFile
    <3>3. \A n \in {0, eof + FileIncrement} : [wmap EXCEPT !.mapped = FALSE, !.section = n] \in View
      BY <3>1, ViewUpdates
    <3>4. wmap' \in View
      BY <3>2, <3>3, Zenon
    <3> QED
      BY <2>3, <3>4 DEF ExtendFilterFile
  <2> QED
    BY <1>3, <2>1, <2>2, <2>3 DEF ScanStepOf
<1>4. CASE CopyActions
  <2>1. CASE SlideReadView
    <3>1. asked \in Nat /\ RoundDown(asked, ViewUnit) \in Nat /\ asked + ViewUnit - 1 \in Nat
      BY DEF Ranges, RoundDown
    <3>2. [rmap EXCEPT !.mapped = FALSE] \in View
      BY ViewUpdates
    <3>3. [rmap EXCEPT !.mapped = TRUE, !.offset = RoundDown(asked, ViewUnit),
                       !.first = asked, !.last = asked + ViewUnit - 1] \in View
      BY <3>1, ViewUpdates
    <3>4. \/ rmap' = [rmap EXCEPT !.mapped = FALSE]
          \/ rmap' = [rmap EXCEPT !.mapped = TRUE, !.offset = RoundDown(asked, ViewUnit),
                                  !.first = asked, !.last = asked + ViewUnit - 1]
      BY <2>1 DEF SlideReadView
    <3>5. rmap' \in View
      BY <3>2, <3>3, <3>4, Zenon
    <3> QED
      BY <2>1, <3>5 DEF SlideReadView
  <2>2. CASE ReopenReadFile
    <3>1. 0 \in Nat /\ eof \in Nat
      BY DEF Ranges
    <3>2. \E n \in {0, eof} : rmap' = [rmap EXCEPT !.mapped = FALSE, !.section = n]
      BY <2>2 DEF ReopenReadFile
    <3>3. \A n \in {0, eof} : [rmap EXCEPT !.mapped = FALSE, !.section = n] \in View
      BY <3>1, ViewUpdates
    <3>4. rmap' \in View
      BY <3>2, <3>3, Zenon
    <3> QED
      BY <2>2, <3>4 DEF ReopenReadFile
  <2>3. CASE UNCHANGED <<wmap, rmap>>
    BY <2>3
  <2> QED
    BY <1>4, <2>1, <2>2, <2>3 DEF CopyActions, CopyStep, ReadEntry, CopyReturn, CopyFiltered,
           filterVars
<1>5. CASE Quiet
  BY <1>5, QuietKeeps DEF filterVars
<1> QED
  BY <1>1, <1>2, <1>3, <1>4, <1>5, NextCases

\* Sliding, extending and failing all leave the next entry in or after the view.
LEMMA WriteViewStep ==
  ASSUME Ranges, Labels, Views, Dialogs, Turns, Positions, WriteView, Next PROVE WriteView'
<1> USE SizesAssumption DEF WriteView, Ranges
<1>1. CASE (\E c \in Conditions : Attach(c)) \/ Detach
  BY <1>1, Restarted DEF FirstView
<1>2. ASSUME UNCHANGED <<wmap, found, eof>>, faults' \in {faults, faults + 1} PROVE WriteView'
  BY <1>2
<1>3. CASE Timer \/ WorkerRound
  BY <1>2, <1>3, Begun DEF filterVars
<1>4. ASSUME NEW t \in Threads, ScanStepOf(t) PROVE WriteView'
  <2> USE DEF Views, View, SequenceMapped
  <2>1. CASE ScanRecord(t)
    BY <1>2, <2>1 DEF ScanRecord, Fault
  <2>2. CASE StoreEntry(t)
    BY <2>2 DEF StoreEntry, boundVars
  <2>3. CASE SlideWriteView(t)
    <3>1. found = wmap.last + 1 /\ NextView = found
      BY <2>3 DEF SlideWriteView, NextView
    <3>2. UNCHANGED <<found, eof>> /\ faults' \in {faults, faults + 1}
      BY <2>3 DEF SlideWriteView, Fault
    <3>3. CASE wmap' = [wmap EXCEPT !.mapped = FALSE]
      <4>1. UNCHANGED <<wmap.section, wmap.first, wmap.last, wmap.offset>>
        BY <3>3
      <4> QED
        BY <3>2, <4>1
    <3>4. CASE /\ NextView + ViewUnit <= wmap.section
               /\ wmap' = [wmap EXCEPT !.mapped = TRUE, !.offset = NextView,
                                       !.first = found, !.last = found + ViewUnit - 1]
      <4>1. wmap'.section = wmap.section /\ wmap'.offset = found /\ wmap'.first = found
            /\ wmap'.last = found + ViewUnit - 1 /\ wmap.section # 0
        BY <3>1, <3>4
      <4> QED
        BY <3>2, <4>1
    <3> QED
      BY <2>3, <3>3, <3>4 DEF SlideWriteView
  <2>4. CASE ExtendFilterFile(t)
    <3>1. found = wmap.last + 1 /\ found' = found
      BY <2>4 DEF ExtendFilterFile
    <3>2. CASE /\ eof' = eof + FileIncrement /\ faults' = faults
               /\ wmap' = [wmap EXCEPT !.mapped = FALSE, !.section = eof']
      <4>1. UNCHANGED <<wmap.first, wmap.last, wmap.offset>> /\ wmap'.section = eof'
        BY <3>2
      <4> QED
        BY <3>1, <3>2, <4>1
    <3>3. CASE UNCHANGED <<eof, wmap>> /\ faults' = faults + 1
      BY <1>2, <3>1, <3>3
    <3>4. CASE /\ eof' = eof + FileIncrement /\ faults' = faults + 1
               /\ wmap' = [wmap EXCEPT !.mapped = FALSE, !.section = 0]
      <4>1. UNCHANGED <<wmap.first, wmap.last, wmap.offset>> /\ wmap'.section = 0
        BY <3>4
      <4> QED
        BY <3>1, <3>4, <4>1
    <3> QED
      BY <2>4, <3>2, <3>3, <3>4 DEF ExtendFilterFile, Fault
  <2> QED
    BY <1>4, <2>1, <2>2, <2>3, <2>4 DEF ScanStepOf
<1>5. CASE CopyActions
  BY <1>2, <1>5, CopyKeeps
<1>6. CASE Quiet
  BY <1>2, <1>6, QuietKeeps DEF filterVars
<1> QED
  BY <1>1, <1>3, <1>4, <1>5, <1>6, NextCases
-----------------------------------------------------------------------------
\* What a step of a scan may be.  The record at hand does not match and the scan
\* goes on to the next.
Passes(t) ==
  /\ pc[t] = "scan" /\ pc'[t] = "scan" /\ number[t] < count /\ number[t] \notin condition
  /\ number'[t] = number[t] + 1 /\ UNCHANGED <<file, found, LastScanned, faults, wmap>>

\* The record at hand matches and is to be written.
Matches(t) ==
  /\ pc[t] = "scan" /\ pc'[t] = "write" /\ number[t] < count /\ number[t] \in condition
  /\ UNCHANGED <<number, file, found, LastScanned, faults, wmap>>

\* The scan is over; the position it reached is kept.
Ends(t) ==
  /\ pc[t] = "scan" /\ ~Scanning(t)' /\ LastScanned' = number[t] - 1
  /\ faults' \in {faults, faults + 1} /\ UNCHANGED <<number, file, found, wmap>>

\* The record at hand is stored as the next entry.
Stores(t) ==
  /\ pc[t] = "write" /\ pc'[t] = "scan" /\ number'[t] = number[t] + 1
  /\ file' = [file EXCEPT ![found] = number[t]] /\ found' = found + 1
  /\ wmap.section # 0 /\ UNCHANGED <<LastScanned, faults, wmap>>

\* The view is moved, or the file extended, for the next entry.
Moves(t) ==
  /\ pc[t] = "write" /\ pc'[t] = "write" /\ wmap'.section # 0
  /\ UNCHANGED <<number, file, found, LastScanned, faults>>

\* A call failed and the scan returns without keeping its position.
Fails(t) ==
  /\ pc[t] = "write" /\ ~Scanning(t)'
  /\ faults' = faults + 1 \/ (faults' = faults /\ wmap.section = 0 /\ wmap'.section = 0)
  /\ UNCHANGED <<number, file, found, LastScanned>>

\* Each step of a scan passes a record, ends, stores, moves the view or fails.
LEMMA ScanOutcomes ==
  ASSUME Ranges, Files, Labels, Views, Turns, Positions, Budget, WriteView,
         NEW t \in Threads, ScanStepOf(t)
  PROVE  Passes(t) \/ Matches(t) \/ Ends(t) \/ Stores(t) \/ Moves(t) \/ Fails(t)
<1> USE ThreadsAssumption, SizesAssumption DEF Labels, Threads, Goto, After
<1>1. CASE ScanRecord(t)
  BY <1>1 DEF ScanRecord, Ranges, Fault, Scanning, Passes, Matches, Ends
<1>2. CASE StoreEntry(t)
  <2>1. wmap.offset + found - wmap.first = found /\ wmap.section # 0
    BY <1>2 DEF StoreEntry, WriteView, Ranges, Views, View, SequenceMapped
  <2>2. UNCHANGED faults
    BY <1>2 DEF StoreEntry, boundVars
  <2> QED
    BY <1>2, <2>1, <2>2 DEF StoreEntry, Writing, Stores, Ranges
<1>3. CASE SlideWriteView(t)
  <2>1. found = wmap.last + 1 /\ NextView = found /\ found < eof \div 2 - 1
    BY <1>3 DEF SlideWriteView, NextView, WriteLimit, WriteView, Ranges, Views, View,
           SequenceMapped
  <2>2. found + ViewUnit <= eof
    BY <2>1 DEF WriteView, Ranges
  <2>3. ~(NextView + ViewUnit <= wmap.section) => wmap.section = 0
    BY <2>1, <2>2 DEF WriteView
  <2>4. wmap'.section = wmap.section
    BY <1>3 DEF SlideWriteView, Views, View
  <2>5. NextView + ViewUnit <= wmap.section => wmap.section # 0
    BY <2>1 DEF WriteView, Ranges, Views, View
  <2>6. pc[t] = "write" /\ UNCHANGED <<number, file, found, LastScanned>>
    BY <1>3 DEF SlideWriteView, Writing
  <2>7. \/ NextView + ViewUnit <= wmap.section /\ UNCHANGED <<pc, faults>>
        \/ /\ Goto(t, After(t))
           /\ \/ faults' = faults + 1
              \/ ~(NextView + ViewUnit <= wmap.section) /\ faults' = faults
    BY <1>3 DEF SlideWriteView, Fault
  <2> QED
    BY <2>3, <2>4, <2>5, <2>6, <2>7 DEF Moves, Fails, Scanning
<1>4. CASE ExtendFilterFile(t)
  <2>1. pc[t] = "write" /\ UNCHANGED <<number, file, found, LastScanned>>
    BY <1>4 DEF ExtendFilterFile, Writing
  <2>2. CASE Goto(t, After(t)) /\ Fault
    BY <2>1, <2>2 DEF Fails, Fault, Scanning
  <2>3. CASE /\ UNCHANGED <<pc, faults>> /\ eof' = eof + FileIncrement
             /\ wmap' = [wmap EXCEPT !.mapped = FALSE, !.section = eof']
    <3>1. wmap'.section = eof'
      BY <2>3 DEF Views, View
    <3> QED
      BY <2>1, <2>3, <3>1 DEF Moves, Ranges
  <2> QED
    BY <1>4, <2>2, <2>3 DEF ExtendFilterFile
<1> QED
  BY <1>1, <1>2, <1>3, <1>4 DEF ScanStepOf

\* A scan starts after the last record kept and never goes past the log.
LEMMA PositionsStep ==
  ASSUME Ranges, Files, Labels, Views, Dialogs, Turns, Positions, Budget, WriteView, Next
  PROVE  Positions'
<1> USE DEF Positions, Ranges
<1>1. CASE (\E c \in Conditions : Attach(c)) \/ Detach
  BY <1>1, Restarted DEF NoScan, Scanning, NoSequence
<1>2. CASE Timer \/ WorkerRound
  <2>1. PICK t \in Threads : /\ pc[t] \in {"idle", "round"} /\ NoScan
                             /\ \A u \in Threads : u # t => pc'[u] = pc[u]
                             /\ \E step \in Nat : BeginScan(t, step)
    BY <1>2, Begun
  <2>2. PICK step \in Nat : BeginScan(t, step)
    BY <2>1
  <2>3. \/ UNCHANGED number /\ ~Scanning(t)'
        \/ /\ pc'[t] = "scan" /\ LastScanned < count - 1
           /\ number' = [number EXCEPT ![t] = LastScanned + 1]
    BY <2>1, <2>2, ScanBegun DEF Scanning
  <2>4. \A u \in Threads :
          Scanning(u)' => /\ u = t /\ pc'[t] = "scan"
                          /\ number'[t] = LastScanned + 1 /\ LastScanned < count - 1
    BY <2>1, <2>3 DEF NoScan, Scanning
  <2>5. UNCHANGED <<LastScanned, count>>
    BY <1>2, Begun DEF filterVars
  <2> QED
    BY <2>4, <2>5 DEF Scanning
<1>3. ASSUME NEW t \in Threads, ScanStepOf(t) PROVE Positions'
  <2>1. /\ UNCHANGED <<count, condition>> /\ Scanning(t)
        /\ \A u \in Threads : u # t => ~Scanning(u) /\ ~Scanning(u)' /\ pc'[u] # "write"
    BY <1>3, ScanKeeps, OneScan DEF Scanning
  <2>2. /\ LastScanned' < count
        /\ Scanning(t)' => LastScanned' < number'[t] /\ number'[t] <= count
        /\ pc'[t] = "write" => number'[t] < count /\ number'[t] \in condition
    BY <1>3, <2>1, ScanOutcomes DEF Passes, Matches, Ends, Stores, Moves, Fails, Scanning
  <2> QED
    BY <2>1, <2>2
<1>4. CASE CopyActions
  <2>1. /\ UNCHANGED <<count, condition, number, LastScanned>>
        /\ pc'[Worker] = pc[Worker] /\ ~Scanning(Window)'
    BY <1>4, CopyKeeps
  <2> QED
    BY <2>1 DEF Threads, Scanning
<1>5. CASE Quiet
  <2>1. UNCHANGED <<condition, number, LastScanned>> /\ count <= count'
    BY <1>5, QuietKeeps DEF filterVars
  <2>2. \A t \in Threads : pc'[t] = pc[t] \/ ~Scanning(t)'
    BY <1>5, QuietKeeps
  <2>3. count' \in Int
    BY <1>5, QuietKeeps
  <2> QED
    BY <2>1, <2>2, <2>3 DEF Scanning
<1> QED
  BY <1>1, <1>2, <1>3, <1>4, <1>5, NextCases

\* When a fault is spent, its share covers whatever was stored since the last
\* position that was kept.
LEMMA BudgetStep ==
  ASSUME Ranges, Files, Labels, Views, Dialogs, Turns, Positions, Budget, WriteView, Reading, Next
  PROVE  Budget'
<1>0. /\ Spent \in Nat /\ MaxRecords \in Nat /\ Spent' \in Int
      /\ faults' = faults => Spent' = Spent
      /\ faults' = faults + 1 => Spent' = Spent + MaxRecords
  <2>1. Spent \in Nat
    BY SpentBound DEF Ranges
  <2>2. faults' = faults + 1 => Spent' = Spent + MaxRecords
    BY SpentMore DEF Spent, Ranges
  <2>3. faults' = faults => Spent' = Spent
    BY DEF Spent
  <2>4. faults' \in Int
    BY RangesStep DEF Ranges
  <2> QED
    BY <2>1, <2>2, <2>3, <2>4, SizesAssumption DEF Spent
<1> USE DEF Budget, Ranges
<1>1. CASE (\E c \in Conditions : Attach(c)) \/ Detach
  <2>1. found' = 0 /\ NoScan' /\ LastScanned' = -1
    BY <1>1, Restarted DEF NoSequence
  <2>2. faults' \in {faults, faults + 1}
    BY <1>1 DEF Attach, Detach, Fault, boundVars
  <2>3. Spent' \in Nat
    BY <1>0, <2>2
  <2>4. found' = 0 /\ LastScanned' + 1 = 0
    BY <2>1
  <2>5. found' <= LastScanned' + 1 + Spent'
    BY <2>3, <2>4
  <2>6. \A t \in Threads : ~Scanning(t)'
    BY <2>1 DEF NoScan
  <2> QED
    BY <2>5, <2>6
<1>2. CASE Timer \/ WorkerRound
  <2>1. PICK t \in Threads : /\ pc[t] \in {"idle", "round"} /\ NoScan
                             /\ \A u \in Threads : u # t => pc'[u] = pc[u]
                             /\ \E step \in Nat : BeginScan(t, step)
    BY <1>2, Begun
  <2>2. PICK step \in Nat : BeginScan(t, step)
    BY <2>1
  <2>3. \A u \in Threads : Scanning(u)' => number'[u] = LastScanned + 1
    BY <2>1, <2>2, ScanBegun DEF NoScan, Scanning
  <2>4. UNCHANGED <<LastScanned, found, wmap, faults>>
    BY <1>2, Begun DEF filterVars
  <2> QED
    BY <1>0, <2>1, <2>3, <2>4
<1>3. ASSUME NEW t \in Threads, ScanStepOf(t) PROVE Budget'
  <2>1. /\ Scanning(t) /\ NoScan' = ~Scanning(t)' /\ ~NoScan
        /\ \A u \in Threads : u # t => ~Scanning(u)'
    BY <1>3, ScanKeeps, OneScan DEF Scanning, NoScan
  <2>2. found <= number[t] + Spent /\ number[t] <= MaxRecords /\ LastScanned < number[t]
    BY <2>1 DEF Positions
  <2>3. Scanning(t)' => found' <= number'[t] + Spent'
    BY <1>0, <1>3, <2>1, <2>2, ScanOutcomes DEF Passes, Matches, Ends, Stores, Moves, Fails
  <2>4. ~Scanning(t)' \/ wmap'.section = 0 => found' <= LastScanned' + 1 + Spent'
    BY <1>0, <1>3, <2>1, <2>2, ScanOutcomes DEF Passes, Matches, Ends, Stores, Moves, Fails,
           Scanning
  <2> QED
    BY <2>1, <2>3, <2>4
<1>4. CASE CopyActions
  <2>1. /\ UNCHANGED <<number, LastScanned, found, wmap>> /\ faults' \in {faults, faults + 1}
        /\ pc'[Worker] = pc[Worker] /\ ~Scanning(Window)' /\ ~Scanning(Window)
    BY <1>4, CopyKeeps
  <2>2. \A t \in Threads : Scanning(t)' <=> Scanning(t)
    BY <2>1 DEF Threads, Scanning
  <2> QED
    BY <1>0, <2>1, <2>2 DEF NoScan
<1>5. CASE Quiet
  <2>1. /\ UNCHANGED <<number, LastScanned, found, wmap, faults>>
        /\ \A t \in Threads : Scanning(t)' <=> Scanning(t)
    BY <1>5, QuietKeeps DEF filterVars, Scanning
  <2> QED
    BY <1>0, <2>1 DEF NoScan
<1> QED
  BY <1>1, <1>2, <1>3, <1>4, <1>5, NextCases

\* Storing leaves what was stored, and adds the record at hand.
LEMMA StoredMore ==
  ASSUME Ranges, Files, Positions, Budget, NEW t \in Threads, Stores(t)
  PROVE  /\ \A i \in 0 .. found - 1 : file'[i] = file[i]
         /\ file'[found] = number[t]
         /\ \A s : Stored(s)' <=> Stored(s) \/ s = number[t]
<1>1. found \in Places /\ found \in Nat /\ found' = found + 1
  BY FoundInFile DEF Stores, Ranges
<1>2. \A i \in 0 .. found - 1 : i \in Places /\ i # found
  BY EntriesInFile
<1>3. /\ \A i \in 0 .. found - 1 : file'[i] = file[i]
      /\ file'[found] = number[t]
  BY <1>1, <1>2 DEF Stores, Files
<1>4. 0 .. found' - 1 = (0 .. found - 1) \cup {found}
  BY <1>1
<1> QED
  BY <1>3, <1>4 DEF Stored

\* A record is passed only if it does not match or was stored.
LEMMA ContentsStep ==
  ASSUME Ranges, Files, Labels, Views, Dialogs, Turns, Positions, Budget, WriteView, Contents, Next
  PROVE  Contents'
<1>1. CASE (\E c \in Conditions : Attach(c)) \/ Detach
  <2>1. found' = 0 /\ NoScan' /\ LastScanned' = -1 /\ condition' \in Conditions \cup {{}}
    BY <1>1, Restarted DEF NoSequence
  <2>2. \A s \in condition' : ~(s <= LastScanned')
    BY <2>1, SizesAssumption
  <2>3. 0 .. found' - 1 = {}
    BY <2>1
  <2> QED
    BY <2>1, <2>2, <2>3 DEF Contents, NoScan
<1>2. CASE Timer \/ WorkerRound
  <2>1. PICK t \in Threads : /\ pc[t] \in {"idle", "round"} /\ NoScan
                             /\ \A u \in Threads : u # t => pc'[u] = pc[u]
                             /\ \E step \in Nat : BeginScan(t, step)
    BY <1>2, Begun
  <2>2. PICK step \in Nat : BeginScan(t, step)
    BY <2>1
  <2>3. \A u \in Threads : Scanning(u)' => number'[u] = LastScanned + 1
    BY <2>1, <2>2, ScanBegun DEF NoScan, Scanning, Ranges
  <2>4. UNCHANGED <<LastScanned, found, file, attached, condition>>
    BY <1>2, Begun DEF filterVars
  <2>5. \A s \in condition : s < LastScanned + 1 => s <= LastScanned
    BY SizesAssumption DEF Files, Ranges
  <2> QED
    BY <2>3, <2>4, <2>5 DEF Contents, Stored
<1>3. ASSUME NEW t \in Threads, ScanStepOf(t) PROVE Contents'
  <2>1. /\ UNCHANGED <<attached, condition>> /\ Scanning(t) /\ attached
        /\ \A u \in Threads : u # t => ~Scanning(u)'
    BY <1>3, ScanKeeps, OneScan DEF Scanning
  <2>2. /\ \A i \in 0 .. found - 1 : file[i] \in condition
        /\ \A s \in condition : s <= LastScanned => Stored(s)
        /\ \A s \in condition : s < number[t] => Stored(s)
    BY <2>1 DEF Contents
  <2>3. /\ number[t] \in Int /\ \A s \in condition : s \in Int
        /\ condition \subseteq Int
    BY SizesAssumption DEF Ranges, Files
  <2>4. \A s \in condition : s < number[t] + 1 => s < number[t] \/ s = number[t]
    BY <2>3
  <2>5. CASE Stores(t)
    <3>1. number[t] \in condition
      BY <2>5 DEF Stores, Positions
    <3>2. 0 .. found' - 1 = (0 .. found - 1) \cup {found}
      BY <2>5 DEF Stores, Ranges
    <3>3. \A i \in 0 .. found' - 1 : file'[i] \in condition
      BY <2>2, <2>5, <3>1, <3>2, StoredMore
    <3>4. \A s \in condition : s <= LastScanned' => Stored(s)'
      BY <2>2, <2>5, StoredMore DEF Stores
    <3>5. \A s \in condition : s < number'[t] => Stored(s)'
      BY <2>2, <2>5, <2>4, StoredMore DEF Stores
    <3> QED
      BY <2>1, <3>3, <3>4, <3>5 DEF Contents
  <2>6. CASE ~Stores(t)
    <3>1. UNCHANGED <<file, found>>
      BY <1>3, <2>6, ScanOutcomes DEF Passes, Matches, Ends, Moves, Fails
    <3>2. LastScanned' \in {LastScanned, number[t] - 1}
      BY <1>3, <2>6, ScanOutcomes DEF Passes, Matches, Ends, Moves, Fails
    <3>3. Scanning(t)' =>
            \/ number'[t] = number[t]
            \/ number'[t] = number[t] + 1 /\ number[t] \notin condition
      BY <1>3, <2>6, ScanOutcomes DEF Passes, Matches, Ends, Moves, Fails
    <3>4. \A s \in condition : s <= LastScanned' => Stored(s)
      BY <2>2, <2>3, <3>2
    <3>5. Scanning(t)' => \A s \in condition : s < number'[t] => Stored(s)
      BY <2>2, <2>4, <3>3
    <3> QED
      BY <2>1, <2>2, <3>1, <3>4, <3>5 DEF Contents, Stored
  <2> QED
    BY <2>5, <2>6
<1>4. CASE CopyActions
  <2>1. /\ UNCHANGED <<number, LastScanned, found, file, attached, condition>>
        /\ pc'[Worker] = pc[Worker] /\ ~Scanning(Window)' /\ ~Scanning(Window)
    BY <1>4, CopyKeeps
  <2>2. \A t \in Threads : Scanning(t)' <=> Scanning(t)
    BY <2>1 DEF Threads, Scanning
  <2> QED
    BY <2>1, <2>2 DEF Contents, Stored
<1>5. CASE Quiet
  <2>1. /\ UNCHANGED <<number, LastScanned, found, file, attached, condition>>
        /\ \A t \in Threads : Scanning(t)' <=> Scanning(t)
    BY <1>5, QuietKeeps DEF filterVars, Scanning
  <2> QED
    BY <2>1 DEF Contents, Stored
<1> QED
  BY <1>1, <1>2, <1>3, <1>4, <1>5, NextCases

\* Without faults, what is stored is after all that was stored before.
LEMMA OrderedStep ==
  ASSUME Ranges, Files, Labels, Views, Dialogs, Turns, Positions, Budget, WriteView,
         Reading, Ordered, Next
  PROVE  Ordered'
<1>0. faults' = 0 => faults = 0
  <2>1. CASE (\E c \in Conditions : Attach(c)) \/ Detach
    BY <2>1 DEF Attach, Detach, Fault, boundVars, Ranges
  <2>2. CASE Timer \/ WorkerRound
    BY <2>2, Begun
  <2>3. ASSUME NEW t \in Threads, ScanStepOf(t) PROVE faults' \in {faults, faults + 1}
    BY <2>3, ScanOutcomes DEF Passes, Matches, Ends, Stores, Moves, Fails
  <2>4. CASE CopyActions
    BY <2>4, CopyKeeps DEF Ranges
  <2>5. CASE Quiet
    BY <2>5, QuietKeeps
  <2> QED
    BY <2>1, <2>2, <2>3, <2>4, <2>5, NextCases DEF Ranges
<1>1. CASE (\E c \in Conditions : Attach(c)) \/ Detach
  <2>1. found' = 0 /\ NoScan'
    BY <1>1, Restarted
  <2>2. 0 .. found' - 1 = {}
    BY <2>1
  <2> QED
    BY <2>2 DEF Ordered
<1>2. CASE Timer \/ WorkerRound
  <2>1. PICK t \in Threads : /\ pc[t] \in {"idle", "round"} /\ NoScan
                             /\ \A u \in Threads : u # t => pc'[u] = pc[u]
                             /\ \E step \in Nat : BeginScan(t, step)
    BY <1>2, Begun
  <2>2. PICK step \in Nat : BeginScan(t, step)
    BY <2>1
  <2>3. \A u \in Threads : Scanning(u)' => number'[u] = LastScanned + 1
    BY <2>1, <2>2, ScanBegun DEF NoScan, Scanning, Ranges
  <2>4. UNCHANGED <<LastScanned, found, file, attached, faults>>
    BY <1>2, Begun DEF filterVars
  <2>5. attached /\ faults = 0 =>
          /\ \A i \in 0 .. found - 1 : file[i] <= LastScanned
          /\ \A i, j \in 0 .. found - 1 : i < j => file[i] < file[j]
    BY <2>1 DEF Ordered
  <2>6. \A i \in 0 .. found - 1 : file[i] <= LastScanned => file[i] < LastScanned + 1
    <3>1. \A i \in 0 .. found - 1 : file[i] \in Int
      BY EntriesInFile DEF Files
    <3> QED
      BY <3>1 DEF Ranges
  <2> QED
    BY <2>3, <2>4, <2>5, <2>6 DEF Ordered
<1>3. ASSUME NEW t \in Threads, ScanStepOf(t) PROVE Ordered'
  <2>1. /\ UNCHANGED attached /\ Scanning(t) /\ attached /\ NoScan' = ~Scanning(t)'
        /\ \A u \in Threads : u # t => ~Scanning(u)'
    BY <1>3, ScanKeeps, OneScan DEF Scanning
  <2>2. SUFFICES ASSUME faults' = 0 PROVE Ordered'
    BY DEF Ordered
  <2>3. /\ \A i \in 0 .. found - 1 : file[i] < number[t]
        /\ \A i, j \in 0 .. found - 1 : i < j => file[i] < file[j]
    BY <1>0, <2>1, <2>2 DEF Ordered
  <2>4. /\ number[t] \in Int
        /\ \A i \in 0 .. found - 1 : file[i] \in Int
    BY EntriesInFile DEF Files, Ranges
  <2>5. CASE Stores(t)
    <3>1. 0 .. found' - 1 = (0 .. found - 1) \cup {found} /\ found \in Nat
      BY <2>5 DEF Stores, Ranges
    <3>2. /\ \A i \in 0 .. found - 1 : file'[i] = file[i]
          /\ file'[found] = number[t]
      BY <2>5, StoredMore
    <3>3. \A i \in 0 .. found' - 1 : file'[i] < number[t] + 1
      BY <2>3, <2>4, <3>1, <3>2
    <3>4. \A i, j \in 0 .. found' - 1 : i < j => file'[i] < file'[j]
      BY <2>3, <3>1, <3>2
    <3>5. Scanning(t)' /\ number'[t] = number[t] + 1
      BY <2>5 DEF Stores, Scanning
    <3> QED
      BY <2>1, <3>3, <3>4, <3>5 DEF Ordered
  <2>6. CASE ~Stores(t)
    <3>1. UNCHANGED <<file, found>>
      BY <1>3, <2>6, ScanOutcomes DEF Passes, Matches, Ends, Moves, Fails
    <3>2. Scanning(t)' => number'[t] \in {number[t], number[t] + 1}
      BY <1>3, <2>6, ScanOutcomes DEF Passes, Matches, Ends, Moves, Fails
    <3>3. ~Scanning(t)' => LastScanned' = number[t] - 1
      BY <1>3, <2>2, <2>6, ScanOutcomes DEF Passes, Matches, Ends, Moves, Fails, Scanning,
             WriteView, Ranges
    <3>4. Scanning(t)' => \A i \in 0 .. found - 1 : file[i] < number'[t]
      BY <2>3, <2>4, <3>2
    <3>5. ~Scanning(t)' => \A i \in 0 .. found - 1 : file[i] <= LastScanned'
      BY <2>3, <2>4, <3>3
    <3> QED
      BY <2>1, <2>3, <3>1, <3>4, <3>5 DEF Ordered
  <2> QED
    BY <2>5, <2>6
<1>4. CASE CopyActions
  <2>1. /\ UNCHANGED <<number, LastScanned, found, file, attached>>
        /\ pc'[Worker] = pc[Worker] /\ ~Scanning(Window)' /\ ~Scanning(Window)
    BY <1>4, CopyKeeps
  <2>2. \A t \in Threads : Scanning(t)' <=> Scanning(t)
    BY <2>1 DEF Threads, Scanning
  <2> QED
    BY <1>0, <2>1, <2>2 DEF Ordered, NoScan
<1>5. CASE Quiet
  <2>1. /\ UNCHANGED <<number, LastScanned, found, file, attached>>
        /\ \A t \in Threads : Scanning(t)' <=> Scanning(t)
    BY <1>5, QuietKeeps DEF filterVars, Scanning
  <2> QED
    BY <1>0, <2>1 DEF Ordered, NoScan
<1> QED
  BY <1>1, <1>2, <1>3, <1>4, <1>5, NextCases

\* What the window reads of its file is an entry, hence a match.
LEMMA ReadingStep ==
  ASSUME Ranges, Files, Labels, Views, Dialogs, Turns, Positions, Budget, WriteView,
         Contents, Reading, Next
  PROVE  Reading'
<1> USE DEF Reading, Ranges
<1>1. CASE (\E c \in Conditions : Attach(c)) \/ Detach
  <2>1. rmap' = FirstView /\ pc'[Window] = "idle" /\ pc[Window] = "idle" /\ got' = got
    BY <1>1, Restarted
  <2> QED
    BY <2>1 DEF FirstView
<1>2. CASE Timer \/ WorkerRound
  <2>1. UNCHANGED <<rmap, asked, found, got, condition>>
    BY <1>2, Begun DEF filterVars
  <2>2. pc'[Window] = pc[Window] \/ (pc[Window] = "idle" /\ pc'[Window] \in {"idle", "scan"})
    BY <1>2, ThreadsAssumption DEF Timer, WorkerRound, Idle, BeginScan, Goto, After, Labels,
           Threads
  <2> QED
    BY <2>1, <2>2
<1>3. ASSUME NEW t \in Threads, ScanStepOf(t) PROVE Reading'
  <2>1. UNCHANGED <<rmap, asked, got, condition>> /\ pc[Window] \notin {"copy", "copied"}
    BY <1>3, ScanKeeps, OneScan
  <2>2. pc'[Window] \notin {"copy", "copied"}
    BY <1>3, <2>1, ThreadsAssumption DEF ScanStepOf, ScanRecord, StoreEntry, SlideWriteView,
           ExtendFilterFile, Goto, After, Labels, Threads
  <2> QED
    BY <2>1, <2>2
<1>4. CASE CopyActions
  <2>1. UNCHANGED <<attached, condition, file, found>>
    BY <1>4, CopyKeeps
  <2> USE ThreadsAssumption DEF Labels, Threads, Goto
  <2>2. CASE ReadEntry
    <3>1. attached /\ rmap.offset + asked - rmap.first \in 0 .. found - 1
      BY <2>2, ReadPlace DEF ReadEntry, Turns, Copying
    <3>2. file[rmap.offset + asked - rmap.first] \in condition
      BY <3>1 DEF Contents
    <3>3. rmap' = rmap
      BY <2>2 DEF ReadEntry, filterVars
    <3> QED
      BY <2>1, <2>2, <3>2, <3>3 DEF ReadEntry, Copying
  <2>3. CASE SlideReadView
    <3>1. RoundDown(asked, ViewUnit) <= asked
      BY SizesAssumption DEF RoundDown
    <3>2. rmap'.offset <= rmap'.first
      BY <2>3, <3>1 DEF SlideReadView, Views, View
    <3> QED
      BY <2>1, <2>3, <3>2 DEF SlideReadView, Copying, copyVars
  <2>4. CASE ReopenReadFile
    <3>1. rmap'.offset <= rmap'.first
      BY <2>4 DEF ReopenReadFile, Views, View
    <3> QED
      BY <2>1, <2>4, <3>1 DEF ReopenReadFile, Copying, copyVars
  <2>5. CASE CopyReturn
    BY <2>1, <2>5 DEF CopyReturn, filterVars
  <2>6. CASE \E k \in 0 .. found - 1 : CopyFiltered(k)
    BY <2>1, <2>6 DEF CopyFiltered, Idle, filterVars
  <2> QED
    BY <1>4, <2>2, <2>3, <2>4, <2>5, <2>6 DEF CopyActions, CopyStep
<1>5. CASE Quiet
  <2>1. UNCHANGED <<rmap, asked, found, got, condition>>
    BY <1>5, QuietKeeps DEF filterVars
  <2> QED
    BY <1>5, <2>1, QuietKeeps
<1> QED
  BY <1>1, <1>2, <1>3, <1>4, <1>5, NextCases
-----------------------------------------------------------------------------
\* Nothing is attached at the start.
LEMMA InitIInv == Init => IInv
<1> SUFFICES ASSUME Init PROVE IInv
  OBVIOUS
<1> USE ThreadsAssumption, SizesAssumption DEF Init
<1>1. Ranges
  BY DEF Ranges, NoSequence, Unread, Threads
<1>2. Files
  BY DEF Files, EmptyFile, NoSequence
<1>3. Labels /\ Turns /\ NoScan
  BY DEF Labels, Turns, Threads, NoDialog, NoScan, Scanning
<1>4. Views
  BY FirstViewTyped DEF Views
<1>5. Dialogs
  BY DEF Dialogs, NoDialog
<1>6. WriteView /\ Reading
  BY <1>3 DEF WriteView, Reading, FirstView, Threads
<1>7. Positions
  BY <1>3 DEF Positions, NoSequence, NoScan, Scanning
<1>8. Budget
  <2>1. found = 0 /\ LastScanned + 1 = 0 /\ Spent = 0
    BY DEF NoSequence, Spent
  <2> QED
    BY <1>3, <2>1 DEF Budget, NoScan
<1>9. Contents /\ Ordered
  BY DEF Contents, Ordered
<1> QED
  BY <1>1, <1>2, <1>3, <1>4, <1>5, <1>6, <1>7, <1>8, <1>9 DEF IInv

\* Every step preserves the invariant.
LEMMA NextIInv == IInv /\ Next => IInv'
<1> SUFFICES ASSUME IInv, Next PROVE IInv'
  OBVIOUS
<1> USE DEF IInv
<1>1. Ranges' /\ Files' /\ Labels' /\ Views' /\ Dialogs' /\ Turns'
  BY RangesStep, FilesStep, LabelsStep, ViewsStep, DialogsStep, TurnsStep
<1>2. WriteView' /\ Positions' /\ Budget'
  BY WriteViewStep, PositionsStep, BudgetStep
<1>3. Contents' /\ Ordered' /\ Reading'
  BY ContentsStep, OrderedStep, ReadingStep
<1> QED
  BY <1>1, <1>2, <1>3

\* So does a step that changes nothing.
LEMMA StutterIInv == IInv /\ UNCHANGED vars => IInv'
<1> SUFFICES ASSUME IInv, UNCHANGED vars PROVE IInv'
  OBVIOUS
<1> USE DEF IInv, vars, filterVars, scanVars, copyVars, boundVars
<1>1. Ranges' /\ Files' /\ Labels' /\ Views' /\ Dialogs' /\ Turns'
  BY DEF Ranges, Files, Labels, Views, Dialogs, Turns
<1>2. WriteView' /\ Positions' /\ Budget'
  BY DEF WriteView, Positions, Budget, NoScan, Scanning, Spent
<1>3. Contents' /\ Ordered' /\ Reading'
  BY DEF Contents, Ordered, Reading, NoScan, Scanning, Stored
<1> QED
  BY <1>1, <1>2, <1>3

\* The invariant holds in every state the filter index can reach.
LEMMA Inductive == Spec => []IInv
<1>1. IInv /\ [Running /\ Next]_vars => IInv'
  BY NextIInv, StutterIInv
<1> QED
  BY <1>1, InitIInv, PTL DEF Spec
-----------------------------------------------------------------------------
\* Every variable keeps its range: the file never has more entries than its
\* places, and the numbers of records scanned stay within the log, although scans
\* that failed store entries again.
THEOREM FilterTypes == Spec => []TypeOK
<1>1. IInv => TypeOK
  BY FoundInFile DEF IInv, TypeOK, Ranges, Files, Labels, Views, Dialogs, Turns
<1> QED
  BY <1>1, Inductive, PTL

\* MspScanFilterRecord, driven by the timer of the window or by the work thread,
\* stores every match among the records it scanned and nothing else, in the order
\* of the log as long as no call failed.
THEOREM FilterKeepsMatches == Spec => []FilterHoldsMatches
<1>1. IInv => FilterHoldsMatches
  <2> SUFFICES ASSUME IInv, attached PROVE FilterHoldsMatches
    BY DEF FilterHoldsMatches, FilterExact, NothingLost
  <2>1. /\ \A i \in 0 .. found - 1 : file[i] \in condition
        /\ \A s \in condition : s <= LastScanned => Stored(s)
        /\ \A t \in Threads : Scanning(t) => \A s \in condition : s < number[t] => Stored(s)
    BY DEF IInv, Contents
  <2>2. NothingLost
    BY <2>1 DEF NothingLost, Entries, Stored
  <2>3. ASSUME faults = 0, NEW t \in Threads, Scanning(t) PROVE HoldsBelow(number[t])
    <3>1. \A i \in 0 .. found - 1 : file[i] < number[t]
      BY <2>3 DEF IInv, Ordered
    <3>2. \A i, j \in 0 .. found - 1 : i < j => file[i] < file[j]
      BY <2>3 DEF IInv, Ordered
    <3> QED
      BY <2>1, <2>3, <3>1, <3>2 DEF HoldsBelow, Entries, Stored
  <2>4. ASSUME faults = 0, NoScan PROVE HoldsBelow(LastScanned + 1)
    <3>1. \A i \in 0 .. found - 1 : file[i] <= LastScanned
      BY <2>4 DEF IInv, Ordered
    <3>2. \A i, j \in 0 .. found - 1 : i < j => file[i] < file[j]
      BY <2>4 DEF IInv, Ordered
    <3>3. \A s \in condition : s < LastScanned + 1 <=> s <= LastScanned
      BY SizesAssumption DEF IInv, Files, Ranges
    <3> QED
      BY <2>1, <3>1, <3>2, <3>3 DEF HoldsBelow, Entries, Stored
  <2> QED
    BY <2>2, <2>3, <2>4 DEF FilterHoldsMatches, FilterExact, NoScan
<1> QED
  BY <1>1, Inductive, PTL

\* The filter file is scanned, copied from or replaced by one thread at a time,
\* without a lock: the progress dialog keeps the window from it.
THEOREM FilterTakesTurns == Spec => []FilterUsedByOne
<1>1. IInv => FilterUsedByOne
  BY DEF IInv, Turns, FilterUsedByOne
<1> QED
  BY <1>1, Inductive, PTL

\* MspCopyRecordFiltered may read another entry than the one it was asked for,
\* when the labels of its mapping are wrong, but the sequence number it reads is
\* always one of a match.
THEOREM CopiesMatch == Spec => []CopiedMatches
<1>1. IInv => CopiedMatches
  BY DEF IInv, Reading, CopiedMatches
<1> QED
  BY <1>1, Inductive, PTL
================================================================================
