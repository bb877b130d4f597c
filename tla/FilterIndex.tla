------------------------------ MODULE FilterIndex ------------------------------
(***************************************************************************)
(* The filter of a record log (dprobe/mspdtl.c, MSP_FILTER_FILE_OBJECT): a  *)
(* scan tests the counted records against a condition and appends the       *)
(* sequence numbers of those that match to a filter file, through one view; *)
(* the window reads the file through a second view and copies the records.  *)
(* Scans are run by the window's timer (logview.c) or by a work thread that *)
(* a dialog starts when a condition was attached (filterhint.c), while the  *)
(* window is stalled.                                                       *)
(*                                                                          *)
(* The file is counted in entries (MSP_FILTER_INDEX).  Copying a record is  *)
(* RecordReader's subject; here it finds the record or fails.               *)
(***************************************************************************)
EXTENDS Integers, FiniteSets

CONSTANTS
  Window,           \* the thread of the window
  Worker,           \* the thread of FilterScanWorkItem
  Conditions,       \* for each condition, the sequence numbers it matches
  ViewUnit,         \* FILTER_SEQUENCES_PER_INCREMENT
  FileIncrement,    \* entries in MSP_INDEX_FILE_INCREMENT
  ScanStep,         \* SCAN_STEP of filterhint.c
  TimerStep,        \* the limit of 100000 in LogViewOnTimer
  MaxRecords,       \* bound: records of the log
  MaxAttaches,      \* bound: conditions attached
  MaxFaults         \* bound: calls that fail

ASSUME ThreadsAssumption == Window # Worker

ASSUME SizesAssumption ==
  /\ MaxRecords \in Nat /\ MaxAttaches \in Nat /\ MaxFaults \in Nat
  /\ \A c \in Conditions : c \subseteq 0 .. MaxRecords - 1
  /\ ViewUnit \in Nat \ {0}
  /\ FileIncrement \in Nat /\ FileIncrement >= 2 * ViewUnit
  /\ FileIncrement % ViewUnit = 0
  /\ ScanStep \in Nat \ {0} /\ TimerStep \in Nat \ {0}

VARIABLES
  count,            \* NumberOfRecords of the index object
  attached,         \* DtlObject->FilterFileObject is not NULL
  condition,        \* FilterObject: the sequence numbers it matches
  file, eof,        \* the filter file and its FileLength
  found,            \* NumberOfRecords of the filter file object
  LastScanned,      \* LastScannedSequence
  wmap, rmap,       \* MappingObject and MappingObject2
  rlen,             \* MappingObject2->FileLength
  pc, number, end,  \* per thread: control point, Number, Start + Step
  asked, got,       \* the window's FilterSequence, the Sequence it read
  dialog,           \* the progress dialog: toScan, scanned, cancel
  attaches, faults

filterVars == <<attached, condition, file, eof, found, LastScanned, wmap, rmap, rlen>>
scanVars   == <<pc, number, end>>
copyVars   == <<asked, got>>
boundVars  == <<attaches, faults>>
vars == <<count, filterVars, scanVars, copyVars, dialog, boundVars>>

Threads  == {Window, Worker}
NoSequence == -1                     \* (ULONG)-1: nothing scanned, nothing written
Unread     == -2                     \* no entry of the file was read
Places   == 0 .. (MaxFaults + 1) * MaxRecords
Entries  == {file[i] : i \in 0 .. found - 1}

RoundDown(x, unit) == (x \div unit) * unit
Min2(a, b)         == IF a <= b THEN a ELSE b
Goto(t, label)     == pc' = [pc EXCEPT ![t] = label]
Fault              == faults < MaxFaults /\ faults' = faults + 1

\* Both mappings start with a view of the first entries.
FirstView == [section |-> FileIncrement, mapped |-> TRUE, offset |-> 0,
              first |-> 0, last |-> ViewUnit - 1]
SequenceMapped(m, s) == m.first <= s /\ s <= m.last

NoDialog == [open |-> FALSE, toScan |-> 0, scanned |-> 0, cancel |-> FALSE]

EmptyFile == [i \in Places |-> NoSequence]

Init ==
  /\ count = 0
  /\ attached = FALSE /\ condition = {}
  /\ file = EmptyFile /\ eof = FileIncrement
  /\ found = 0 /\ LastScanned = NoSequence
  /\ wmap = FirstView /\ rmap = FirstView /\ rlen = FileIncrement
  /\ pc = [t \in Threads |-> IF t = Window THEN "idle" ELSE "exited"]
  /\ number = [t \in Threads |-> 0] /\ end = [t \in Threads |-> 0]
  /\ asked = 0 /\ got = Unread
  /\ dialog = NoDialog
  /\ attaches = 0 /\ faults = 0

--------------------------------------------------------------------------------
\* The index thread counts one more record, at any moment.
Publish ==
  /\ count < MaxRecords
  /\ count' = count + 1
  /\ UNCHANGED <<filterVars, scanVars, copyVars, dialog, boundVars>>

Idle == pc[Window] = "idle" /\ ~dialog.open

\* MspCreateFilterFileObject
CreateFilter(c) ==
  /\ attached' = TRUE /\ condition' = c
  /\ file' = EmptyFile /\ eof' = FileIncrement
  /\ found' = 0 /\ LastScanned' = NoSequence
  /\ wmap' = FirstView /\ rmap' = FirstView /\ rlen' = FileIncrement

NoFilter ==
  /\ attached' = FALSE /\ condition' = {}
  /\ file' = EmptyFile /\ eof' = FileIncrement
  /\ found' = 0 /\ LastScanned' = NoSequence
  /\ wmap' = FirstView /\ rmap' = FirstView /\ rlen' = FileIncrement

OpenDialog ==
  /\ dialog' = [NoDialog EXCEPT !.open = TRUE, !.toScan = count]
  /\ pc' = [pc EXCEPT ![Worker] = "round"]

(***************************************************************************)
(* MspAttachFilterCondition: the old filter file object is destroyed and a  *)
(* new one created; when its creation fails there is no filter.  The frame  *)
(* then opens the progress dialog, except after the first condition of a    *)
(* session was edited.                                                      *)
(***************************************************************************)
Attach(c) ==
  /\ Idle /\ attaches < MaxAttaches
  /\ attaches' = attaches + 1
  /\ \/ CreateFilter(c) /\ OpenDialog /\ UNCHANGED faults
     \/ CreateFilter(c) /\ ~attached /\ UNCHANGED <<dialog, pc, faults>>
     \/ Fault /\ NoFilter /\ UNCHANGED <<dialog, pc>>
  /\ UNCHANGED <<count, number, end, copyVars>>

Detach ==
  /\ Idle /\ attached
  /\ NoFilter
  /\ UNCHANGED <<count, scanVars, copyVars, dialog, boundVars>>

--------------------------------------------------------------------------------
(***************************************************************************)
(* MspScanFilterRecord.                                                     *)
(***************************************************************************)
\* Where the scan routine returns to.
After(t) == IF t = Window THEN "idle" ELSE "scanned"

\* Maximum - LastSequence + 1 is one more than there is to scan, so that the
\* copy of the last one fails unless a record was counted meanwhile.
BeginScan(t, step) ==
  IF count = 0 \/ LastScanned >= count - 1
  THEN Goto(t, After(t)) /\ UNCHANGED <<number, end>>
  ELSE /\ number' = [number EXCEPT ![t] = LastScanned + 1]
       /\ end' = [end EXCEPT ![t] = LastScanned + 1 + Min2(step, count - LastScanned)]
       /\ Goto(t, "scan")

\* Faulty variant: a record that could not be copied counts as scanned.
ScanRecordSkipping(t) ==
  /\ pc[t] = "scan"
  /\ \/ /\ number[t] = end[t] \/ number[t] >= count
        /\ LastScanned' = number[t]
        /\ Goto(t, After(t))
        /\ UNCHANGED number
     \/ /\ number[t] < end[t] /\ number[t] < count
        /\ Goto(t, IF number[t] \in condition THEN "write" ELSE "scan")
        /\ number' = IF number[t] \in condition THEN number
                     ELSE [number EXCEPT ![t] = @ + 1]
        /\ UNCHANGED LastScanned
  /\ UNCHANGED <<count, attached, condition, file, eof, found, wmap, rmap, rlen, end,
                 copyVars, dialog, boundVars>>

\* Faulty variant: the position is set back by one too many.
ScanRecordBehind(t) ==
  /\ pc[t] = "scan"
  /\ \/ /\ number[t] = end[t] \/ number[t] >= count
        /\ LastScanned' = number[t] - 2
        /\ Goto(t, After(t))
        /\ UNCHANGED number
     \/ /\ number[t] < end[t] /\ number[t] < count
        /\ Goto(t, IF number[t] \in condition THEN "write" ELSE "scan")
        /\ number' = IF number[t] \in condition THEN number
                     ELSE [number EXCEPT ![t] = @ + 1]
        /\ UNCHANGED LastScanned
  /\ UNCHANGED <<count, attached, condition, file, eof, found, wmap, rmap, rlen, end,
                 copyVars, dialog, boundVars>>

ScanRecord(t) ==
  /\ pc[t] = "scan"
  /\ \/ /\ number[t] = end[t] \/ number[t] >= count
        /\ LastScanned' = number[t] - 1
        /\ Goto(t, After(t))
        /\ UNCHANGED <<number, faults>>
     \/ /\ number[t] < end[t] /\ Fault             \* MspCopyRecord fails
        /\ LastScanned' = number[t] - 1
        /\ Goto(t, After(t))
        /\ UNCHANGED number
     \/ /\ number[t] < end[t] /\ number[t] < count
        /\ number[t] \notin condition
        /\ number' = [number EXCEPT ![t] = @ + 1]
        /\ UNCHANGED <<pc, LastScanned, faults>>
     \/ /\ number[t] < end[t] /\ number[t] < count
        /\ number[t] \in condition
        /\ Goto(t, "write")
        /\ UNCHANGED <<number, LastScanned, faults>>
  /\ UNCHANGED <<count, attached, condition, file, eof, found, wmap, rmap, rlen, end,
                 copyVars, dialog, attaches>>

(***************************************************************************)
(* MspWriteFilterIndex: store into the view, move the view on, or extend    *)
(* the file and start over.  Its limit divides the length by the size of a  *)
(* BTR_FILE_INDEX, twice that of an entry.  A failure returns from the scan *)
(* without a new LastScannedSequence.                                       *)
(***************************************************************************)
Writing(t) == pc[t] = "write"

WriteLimit == eof \div 2 - 1

NextView   == wmap.offset + ViewUnit

StoreEntry(t) ==
  /\ Writing(t) /\ SequenceMapped(wmap, found)
  /\ file' = [file EXCEPT ![wmap.offset + found - wmap.first] = number[t]]
  /\ found' = found + 1
  /\ number' = [number EXCEPT ![t] = @ + 1]
  /\ Goto(t, "scan")
  /\ UNCHANGED <<count, attached, condition, eof, LastScanned, wmap, rmap, rlen, end,
                 copyVars, dialog, boundVars>>

SlideWriteView(t) ==
  /\ Writing(t) /\ ~SequenceMapped(wmap, found) /\ found < WriteLimit
  /\ \/ /\ NextView + ViewUnit <= wmap.section
        /\ wmap' = [wmap EXCEPT !.mapped = TRUE, !.offset = NextView,
                                !.first = found, !.last = found + ViewUnit - 1]
        /\ UNCHANGED <<pc, faults>>
     \/ /\ IF NextView + ViewUnit <= wmap.section THEN Fault ELSE UNCHANGED faults
        /\ wmap' = [wmap EXCEPT !.mapped = FALSE]
        /\ Goto(t, After(t))
  /\ UNCHANGED <<count, attached, condition, file, eof, found, LastScanned, rmap, rlen,
                 number, end, copyVars, dialog, attaches>>

ExtendFilterFile(t) ==
  /\ Writing(t) /\ ~SequenceMapped(wmap, found) /\ found >= WriteLimit
  /\ \/ /\ eof' = eof + FileIncrement
        /\ wmap' = [wmap EXCEPT !.mapped = FALSE, !.section = eof']
        /\ UNCHANGED <<pc, faults>>
     \/ /\ Fault                                   \* MspExtendFileLength
        /\ Goto(t, After(t))
        /\ UNCHANGED <<eof, wmap>>
     \/ /\ Fault                                   \* CreateFileMapping
        /\ eof' = eof + FileIncrement
        /\ wmap' = [wmap EXCEPT !.mapped = FALSE, !.section = 0]
        /\ Goto(t, After(t))
  /\ UNCHANGED <<count, attached, condition, file, found, LastScanned, rmap, rlen,
                 number, end, copyVars, dialog, attaches>>

--------------------------------------------------------------------------------
(***************************************************************************)
(* The window: its timer scans what MspComputeFilterScanStep asks for, and  *)
(* it copies the records it shows (MspCopyRecordFiltered).                  *)
(***************************************************************************)
\* Faulty variant: the last record is taken for scanned.
ComputeScanStepShort == IF LastScanned + 2 >= count THEN 0 ELSE count - LastScanned

\* One more than there is to scan, unless nothing was scanned yet.
ComputeScanStep ==
  CASE LastScanned + 1 >= count  -> 0
    [] LastScanned = NoSequence  -> count
    [] OTHER                     -> count - LastScanned

Timer ==
  /\ Idle /\ attached
  /\ BeginScan(Window, Min2(ComputeScanStep, TimerStep))
  /\ UNCHANGED <<count, filterVars, copyVars, dialog, boundVars>>

CopyFiltered(k) ==
  /\ Idle /\ attached
  /\ asked' = k
  /\ Goto(Window, "copy")
  /\ UNCHANGED <<count, filterVars, number, end, got, dialog, boundVars>>

Copying   == pc[Window] = "copy"
ReadLimit == rlen - 1

ReadEntry ==
  /\ Copying /\ SequenceMapped(rmap, asked)
  /\ \/ /\ rmap.mapped
        /\ got' = file[rmap.offset + asked - rmap.first]
        /\ Goto(Window, "copied")
     \/ /\ ~rmap.mapped                            \* reads through NULL
        /\ Goto(Window, "crashed")
        /\ UNCHANGED got
  /\ UNCHANGED <<count, filterVars, number, end, asked, dialog, boundVars>>

\* Faulty variant: the view after the one the entry is in.
SlideReadViewUp ==
  /\ Copying /\ ~SequenceMapped(rmap, asked) /\ asked < ReadLimit
  /\ rmap' = [rmap EXCEPT !.mapped = TRUE, !.first = asked,
                          !.offset = RoundDown(asked, ViewUnit) + ViewUnit,
                          !.last = asked + ViewUnit - 1]
  /\ UNCHANGED <<count, attached, condition, file, eof, found, LastScanned, wmap, rlen,
                 scanVars, copyVars, dialog, boundVars>>

\* The view starts at the rounded-down place, its labels at FilterSequence.
SlideReadView ==
  /\ Copying /\ ~SequenceMapped(rmap, asked) /\ asked < ReadLimit
  /\ LET start == RoundDown(asked, ViewUnit)
         fits  == start + ViewUnit <= rmap.section
     IN  \/ /\ fits
            /\ rmap' = [rmap EXCEPT !.mapped = TRUE, !.offset = start,
                                    !.first = asked, !.last = asked + ViewUnit - 1]
            /\ UNCHANGED <<pc, faults>>
         \/ /\ IF fits THEN Fault ELSE UNCHANGED faults
            /\ rmap' = [rmap EXCEPT !.mapped = FALSE]
            /\ Goto(Window, "copied")
  /\ UNCHANGED <<count, attached, condition, file, eof, found, LastScanned, wmap, rlen,
                 number, end, copyVars, dialog, attaches>>

\* Faulty variant: the new section is opened with the length known before.
ReopenReadFileShort ==
  /\ Copying /\ ~SequenceMapped(rmap, asked) /\ asked >= ReadLimit
  /\ rmap' = [rmap EXCEPT !.mapped = FALSE, !.section = eof]
  /\ UNCHANGED <<count, attached, condition, file, eof, found, LastScanned, wmap, rlen,
                 scanVars, copyVars, dialog, boundVars>>

ReopenReadFile ==
  /\ Copying /\ ~SequenceMapped(rmap, asked) /\ asked >= ReadLimit
  /\ rlen' = eof
  /\ \/ /\ rmap' = [rmap EXCEPT !.mapped = FALSE, !.section = eof]
        /\ UNCHANGED <<pc, faults>>
     \/ /\ Fault
        /\ rmap' = [rmap EXCEPT !.mapped = FALSE, !.section = 0]
        /\ Goto(Window, "copied")
  /\ UNCHANGED <<count, attached, condition, file, eof, found, LastScanned, wmap,
                 number, end, copyVars, dialog, attaches>>

\* MspCopyRecord with the sequence read, and back to the window.
CopyReturn ==
  /\ pc[Window] = "copied"
  /\ Goto(Window, "idle")
  /\ got' = Unread /\ asked' = 0
  /\ UNCHANGED <<count, filterVars, number, end, dialog, boundVars>>

--------------------------------------------------------------------------------
(***************************************************************************)
(* The progress dialog: a work thread scans as many records as there were,  *)
(* in rounds, and looks at Cancel after each full round; the dialog's timer *)
(* waits for the thread before the window is used again.                    *)
(***************************************************************************)
ToScan == dialog.toScan - dialog.scanned

WorkerRound ==
  /\ pc[Worker] = "round"
  /\ BeginScan(Worker, Min2(ScanStep, ToScan))
  /\ UNCHANGED <<count, filterVars, copyVars, dialog, boundVars>>

WorkerNext ==
  /\ pc[Worker] = "scanned"
  /\ dialog' = [dialog EXCEPT !.scanned = @ + Min2(ScanStep, ToScan)]
  /\ Goto(Worker, IF ToScan < ScanStep \/ dialog.cancel THEN "exited" ELSE "round")
  /\ UNCHANGED <<count, filterVars, number, end, copyVars, boundVars>>

Cancel ==
  /\ dialog.open /\ ~dialog.cancel /\ pc[Window] = "idle"
  /\ dialog' = [dialog EXCEPT !.cancel = TRUE]
  /\ UNCHANGED <<count, filterVars, scanVars, copyVars, boundVars>>

\* The percentage divides by the number of records to scan.
DialogTimer ==
  /\ dialog.open /\ pc[Window] = "idle"
  /\ \/ dialog.toScan = 0 /\ Goto(Window, "crashed")
     \/ /\ dialog.toScan > 0
        /\ dialog.scanned >= dialog.toScan \/ dialog.cancel
        /\ Goto(Window, "wait")
  /\ UNCHANGED <<count, filterVars, number, end, copyVars, dialog, boundVars>>

\* Faulty variant: the dialog ends without waiting for the thread.
DialogEndAtOnce ==
  /\ pc[Window] = "wait"
  /\ dialog' = NoDialog
  /\ Goto(Window, "idle")
  /\ UNCHANGED <<count, filterVars, number, end, copyVars, boundVars>>

DialogEnd ==
  /\ pc[Window] = "wait" /\ pc[Worker] = "exited"
  /\ dialog' = NoDialog
  /\ Goto(Window, "idle")
  /\ UNCHANGED <<count, filterVars, number, end, copyVars, boundVars>>

ScanStepOf(t) ==
  \/ ScanRecord(t) \/ StoreEntry(t) \/ SlideWriteView(t) \/ ExtendFilterFile(t)

CopyStep == ReadEntry \/ SlideReadView \/ ReopenReadFile \/ CopyReturn

Next ==
  \/ Publish
  \/ \E c \in Conditions : Attach(c)
  \/ Detach
  \/ Timer
  \/ \E k \in 0 .. found - 1 : CopyFiltered(k)
  \/ \E t \in Threads : ScanStepOf(t)
  \/ CopyStep
  \/ WorkerRound \/ WorkerNext
  \/ Cancel \/ DialogTimer \/ DialogEnd

\* A process that has crashed does nothing any more.
Running == pc[Window] # "crashed"

Spec == Init /\ [][Running /\ Next]_vars

\* Threads run; a timer message is not put off for ever by what the user does.
Fairness ==
  /\ \A t \in Threads : WF_vars(Running /\ ScanStepOf(t))
  /\ WF_vars(Running /\ CopyStep)
  /\ WF_vars(Running /\ (WorkerRound \/ WorkerNext))
  /\ WF_vars(Running /\ DialogTimer) /\ WF_vars(Running /\ DialogEnd)
  /\ SF_vars(Running /\ Timer)

FairSpec == Spec /\ Fairness

--------------------------------------------------------------------------------
View == [section : Nat, mapped : BOOLEAN, offset : Nat, first : Nat, last : Nat]

\* The ranges of every variable.  What could go wrong: a scan position below
\* the value it starts with, an entry stored outside the file.
TypeOK ==
  /\ count \in 0 .. MaxRecords
  /\ attached \in BOOLEAN /\ condition \subseteq 0 .. MaxRecords - 1
  /\ file \in [Places -> Int] /\ eof \in Nat
  /\ found \in Places /\ LastScanned \in -1 .. MaxRecords
  /\ wmap \in View /\ rmap \in View /\ rlen \in Nat
  /\ pc \in [Threads -> {"idle", "scan", "write", "copy", "copied", "crashed", "wait",
                         "round", "scanned", "exited"}]
  /\ number \in [Threads -> 0 .. MaxRecords] /\ end \in [Threads -> Nat]
  /\ asked \in Nat /\ got \in Int
  /\ dialog \in [open : BOOLEAN, toScan : Nat, scanned : Nat, cancel : BOOLEAN]
  /\ attaches \in 0 .. MaxAttaches /\ faults \in 0 .. MaxFaults

Scanning(t) == pc[t] \in {"scan", "write"}

\* The filter file holds the matching sequence numbers below n, in order.
HoldsBelow(n) ==
  /\ Entries = {s \in condition : s < n}
  /\ \A i, j \in 0 .. found - 1 : i < j => file[i] < file[j]

\* Without failures the filter file holds exactly the matching sequence
\* numbers scanned so far, once each and in order, across view and file
\* boundaries and whoever scans.
FilterExact ==
  attached /\ faults = 0 =>
    /\ \A t \in Threads : Scanning(t) => HoldsBelow(number[t])
    /\ (\A t \in Threads : ~Scanning(t)) => HoldsBelow(LastScanned + 1)

\* Whatever fails, no matching record below the scan position is missing from
\* the filter file, and none is in it that does not match.
NothingLost ==
  attached => {s \in condition : s <= LastScanned} \subseteq Entries
              /\ Entries \subseteq condition

\* The filter file is the matching records: FilterExact and NothingLost.
FilterHoldsMatches == FilterExact /\ NothingLost

\* The window and the work thread never use the filter file object together;
\* a filter is never destroyed under the scan of the thread.
FilterUsedByOne ==
  pc[Worker] # "exited" => attached /\ pc[Window] \in {"idle", "wait", "crashed"}
                           /\ dialog.open

\* Although the window's view is labelled with a sequence that was not rounded
\* down with its offset, so that the record copied may be another than the one
\* asked for, it is always one that the condition matches.
CopiedMatches == pc[Window] = "copied" /\ got # Unread => got \in condition

\* MspCopyRecordFiltered ends: after the file was reopened the entry is below
\* the limit, so that it does not call itself for ever.
CopyEnds == (pc[Window] = "copy") ~> (pc[Window] \in {"idle", "crashed"})

\* Without failures every counted record is eventually scanned.
EverythingScanned ==
  \A n \in 1 .. MaxRecords :
    (attached /\ count >= n) ~>
      (LastScanned + 1 >= n \/ ~attached \/ faults > 0 \/ ~Running)
================================================================================
