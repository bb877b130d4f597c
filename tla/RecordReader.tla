------------------------------ MODULE RecordReader ------------------------------
(***************************************************************************)
(* Reading records back: MspCopyRecord of dprobe/mspdtl.c, which looks up a *)
(* record's index entry and then the record, through one view of the index  *)
(* file and one view of the data file that all callers share without a      *)
(* lock.  In a live session the log grows while it is read; a report is     *)
(* complete, and a work item that counts its records (counterhint.c) reads  *)
(* it beside the report's window (reportdlg.c), which is stalled meanwhile. *)
(* A work item that saves a live session (MspWriteDtlWorkItem) also reads   *)
(* beside the window, which is not stalled.                                 *)
(*                                                                          *)
(* Units are those of SharedCache: data lengths are abstract, index lengths *)
(* are entries.  SharedCache!CountedWithinLengths and CountedAreCommitted   *)
(* are what this module takes for granted of the log it reads.              *)
(***************************************************************************)
EXTENDS Integers, Sequences, FiniteSets, DataFile

CONSTANTS
  Viewer,           \* the thread of the window that shows the records
  Scanner,          \* the work item CounterScanWorkItem or MspWriteDtlWorkItem
  Reports,          \* the kinds of log: a report (TRUE), a live session (FALSE)
  RecordSizes,      \* sizes of records, in data units
  DataIncrement,    \* MSP_DATA_FILE_INCREMENT
  DataMapUnit,      \* MSP_DATA_MAP_INCREMENT
  IndexIncrement,   \* MSP_INDEX_FILE_INCREMENT, in entries
  IndexMapUnit,     \* SEQUENCES_PER_INCREMENT
  MaxRecords,       \* bound: records of the log
  MaxFaults         \* bound: operating-system calls that fail

ASSUME ReadersAssumption == Viewer # Scanner /\ Reports \subseteq BOOLEAN

ASSUME UnitsAssumption ==
  /\ DataMapUnit \in Nat \ {0}
  /\ RecordSizes \subseteq 1 .. DataMapUnit
  /\ DataIncrement \in Nat \ {0} /\ DataIncrement % DataMapUnit = 0
  /\ IndexMapUnit \in Nat \ {0}
  /\ IndexIncrement \in Nat \ {0} /\ IndexIncrement % IndexMapUnit = 0
  /\ MaxRecords \in Nat \ {0} /\ MaxFaults \in Nat

VARIABLES
  report,           \* DtlObject->Type = DTL_REPORT
  log,              \* the counted records: log[s + 1] is the extent of record s
  written,          \* the extents that writers took for records not counted yet
  validLength,      \* DataValidLength: where the next extent starts
  dataLength, indexLength,   \* the lengths in the global page, and of the files
  ifile, imap,      \* IndexObject->FileLength and its MSP_MAPPING_OBJECT
  dfile, dmap,      \* DataObject->FileLength and its MSP_MAPPING_OBJECT
  pc, want, hit, len,  \* per reader: control point, Sequence, Index, FileLength or End
  stall,            \* the report's window is in stall mode
  scanned,          \* Context->ScannedNumber of the work item
  shared,           \* history: the readers whose call overlapped another's
  mixed,            \* history: the views that such readers moved and none alone since
  faults

logVars    == <<report, log, written, validLength, dataLength, indexLength>>
indexVars  == <<ifile, imap>>
dataVars   == <<dfile, dmap>>
readerVars == <<pc, want, hit, len, shared, mixed>>
dialogVars == <<stall, scanned>>
vars == <<logVars, indexVars, dataVars, readerVars, dialogVars, faults>>

Readers == {Viewer, Scanner}
Count   == Len(log)                 \* MspGetRecordCount
NoView  == -1
NoExtent == [start |-> 0, size |-> 0]

Min2(a, b) == IF a <= b THEN a ELSE b

\* The records of a report, which ends with the unit its last record ends in
\* (MspComputeReplicaLength, MspWriteDtlFiltered), when all of them are before.
ReportLogs ==
  {l \in [1 .. MaxRecords -> [start : 0 .. MaxRecords * DataMapUnit, size : RecordSizes]] :
     /\ FillsFile(l)
     /\ \A i \in DOMAIN l : EndOf(l[i]) <= RoundUp(EndOf(l[MaxRecords]), DataMapUnit)}

Goto(r, label) == pc' = [pc EXCEPT ![r] = label]
Fault == faults < MaxFaults /\ faults' = faults + 1

\* A live log starts empty; a report is loaded with its records, in files cut
\* to a whole number of views.
Init ==
  /\ report \in Reports
  /\ log \in IF report THEN ReportLogs ELSE {<<>>}
  /\ written = {} /\ validLength = 0
  /\ dataLength = IF report THEN RoundUp(EndOf(log[Count]), DataMapUnit) ELSE DataIncrement
  /\ indexLength = IF report THEN RoundUp(Count, IndexMapUnit) ELSE IndexIncrement
  /\ ifile = indexLength
  /\ imap = [section |-> indexLength, view |-> 0, first |-> 0, last |-> IndexMapUnit - 1]
  /\ dfile = dataLength
  /\ dmap = [section |-> dataLength, from |-> 0, to |-> DataMapUnit,
             lo |-> 0, hi |-> DataMapUnit]
  /\ pc = [r \in Readers |-> "idle"]
  /\ want = [r \in Readers |-> 0]
  /\ hit = [r \in Readers |-> NoExtent]
  /\ len = [r \in Readers |-> 0]
  /\ stall = report
  /\ scanned = 0
  /\ shared = {} /\ mixed = {}
  /\ faults = 0

--------------------------------------------------------------------------------
(***************************************************************************)
(* The session: writers take extents of the data file, and lengthen a file  *)
(* that is too short for the next; the index thread counts the records in   *)
(* the order of their sequence numbers.  Which number the record of an      *)
(* extent has is left open until it is counted.                             *)
(***************************************************************************)
RoomForRecord == ~report /\ Count + Cardinality(written) < MaxRecords

WriteRecord(size) ==
  /\ RoomForRecord /\ validLength + size <= dataLength
  /\ written' = written \cup {[start |-> validLength, size |-> size]}
  /\ validLength' = validLength + size
  /\ UNCHANGED <<report, log, dataLength, indexLength, indexVars, dataVars, readerVars,
                 dialogVars, faults>>

ExtendData ==
  /\ RoomForRecord /\ \E size \in RecordSizes : validLength + size > dataLength
  /\ dataLength' = dataLength + DataIncrement
  /\ UNCHANGED <<report, log, written, validLength, indexLength, indexVars, dataVars,
                 readerVars, dialogVars, faults>>

\* By a writer whose entry is past the end, or by the index thread that counted
\* to the end.
ExtendIndex ==
  /\ ~report /\ indexLength < MaxRecords
  /\ written # {} \/ Count = indexLength
  /\ indexLength' = indexLength + IndexIncrement
  /\ UNCHANGED <<report, log, written, validLength, dataLength, indexVars, dataVars,
                 readerVars, dialogVars, faults>>

CountRecord(e) ==
  /\ Count < indexLength
  /\ log' = Append(log, e)
  /\ written' = written \ {e}
  /\ UNCHANGED <<report, validLength, dataLength, indexLength, indexVars, dataVars,
                 readerVars, dialogVars, faults>>

Call(r, s) ==
  /\ pc[r] = "idle"
  /\ shared' = IF \E q \in Readers \ {r} : pc[q] # "idle" THEN Readers ELSE {}
  /\ want' = [want EXCEPT ![r] = s]
  /\ Goto(r, "index")

\* The window asks for a record it shows; a filter scan also asks for the one
\* after the last.  A window in stall mode asks for nothing.
View(s) ==
  /\ ~stall
  /\ Call(Viewer, s)
  /\ UNCHANGED <<logVars, indexVars, dataVars, hit, len, mixed, dialogVars, faults>>

(***************************************************************************)
(* The dialog that counts a report's records: one work item copies every    *)
(* record; the window leaves stall mode when a timer finds all of them      *)
(* scanned, or at once when the user cancels.                               *)
(***************************************************************************)
ScanNext ==
  /\ report /\ scanned < Count
  /\ Call(Scanner, scanned)
  /\ UNCHANGED <<logVars, indexVars, dataVars, hit, len, mixed, dialogVars, faults>>

ScanTimer ==
  /\ stall /\ scanned >= Count
  /\ stall' = FALSE
  /\ UNCHANGED <<logVars, indexVars, dataVars, readerVars, scanned, faults>>

ScanCancel ==
  /\ stall
  /\ stall' = FALSE
  /\ UNCHANGED <<logVars, indexVars, dataVars, readerVars, scanned, faults>>

(***************************************************************************)
(* MspComputeReplicaLength, in a work item: looks up the entry of what was  *)
(* the last record when the dialog opened, then copies that record.  The    *)
(* window goes on asking for records.                                       *)
(***************************************************************************)
SaveLast(s) ==
  /\ ~report
  /\ Call(Scanner, s)
  /\ UNCHANGED <<logVars, indexVars, dataVars, hit, len, mixed, dialogVars, faults>>

\* The first of the two lookups returns with the entry.
SaveLooksUp ==
  /\ ~report /\ pc[Scanner] = "data"
  /\ Goto(Scanner, "idle")
  /\ hit' = [hit EXCEPT ![Scanner] = NoExtent]
  /\ want' = [want EXCEPT ![Scanner] = 0]
  /\ len' = [len EXCEPT ![Scanner] = 0]
  /\ shared' = shared \ {Scanner}
  /\ UNCHANGED <<logVars, indexVars, dataVars, mixed, dialogVars, faults>>

--------------------------------------------------------------------------------
(***************************************************************************)
(* MspLookupIndexBySequence.                                                *)
(***************************************************************************)
SequenceMapped(s) == imap.first <= s /\ s <= imap.last
ViewOf(s)         == RoundDown(s, IndexMapUnit)

LookupIndex(r) ==
  /\ pc[r] = "index"
  /\ \/ want[r] >= Count /\ Goto(r, "failed")
     \/ want[r] < Count /\ SequenceMapped(want[r]) /\ Goto(r, "entry")
     \/ want[r] < Count /\ ~SequenceMapped(want[r]) /\ Goto(r, "unmapindex")
  /\ UNCHANGED <<logVars, indexVars, dataVars, want, hit, len, shared, mixed, dialogVars, faults>>

\* The entry at the sequence's distance from FirstSequence in whatever view
\* MappedVa points to now.
ReadEntry(r) ==
  /\ pc[r] = "entry"
  /\ LET place == want[r] - imap.first
         entry == imap.view + place
     IN  \/ /\ imap.view = NoView \/ place \notin 0 .. IndexMapUnit - 1
            /\ Goto(r, "crashed")
            /\ UNCHANGED hit
         \/ /\ imap.view # NoView /\ place \in 0 .. IndexMapUnit - 1
            /\ entry >= Count                       \* not committed
            /\ Goto(r, "failed")
            /\ UNCHANGED hit
         \/ /\ imap.view # NoView /\ place \in 0 .. IndexMapUnit - 1
            /\ entry >= Count                       \* committed, not counted
            /\ \E e \in written : hit' = [hit EXCEPT ![r] = e]
            /\ Goto(r, "data")
         \/ /\ imap.view # NoView /\ place \in 0 .. IndexMapUnit - 1
            /\ entry < Count
            /\ hit' = [hit EXCEPT ![r] = log[entry + 1]]
            /\ Goto(r, "data")
  /\ UNCHANGED <<logVars, indexVars, dataVars, want, len, shared, mixed, dialogVars, faults>>

\* The views have no lock: what a reader does to one while its call overlaps
\* another's leaves it mixed, until a reader that is alone has mapped it anew.
Moves(r, view)   == mixed' = IF r \in shared THEN mixed \cup {view} ELSE mixed
Settles(r, view) == mixed' = IF r \in shared THEN mixed \cup {view} ELSE mixed \ {view}

UnmapIndex(r) ==
  /\ pc[r] = "unmapindex"
  /\ imap' = [imap EXCEPT !.view = NoView]
  /\ Moves(r, "index")
  /\ Goto(r, IF ViewOf(want[r]) < ifile THEN "mapindex" ELSE "followindex")
  /\ UNCHANGED <<logVars, ifile, dataVars, want, hit, len, shared, dialogVars, faults>>

\* What is mapped is stored first; when nothing is, the labels of the old view stay.
MapIndex(r) ==
  /\ pc[r] = "mapindex"
  /\ LET fits == ViewOf(want[r]) + IndexMapUnit <= imap.section
     IN  \/ /\ fits
            /\ imap' = [imap EXCEPT !.view = ViewOf(want[r])]
            /\ Goto(r, "labelindex")
            /\ UNCHANGED faults
         \/ /\ IF fits THEN Fault ELSE UNCHANGED faults
            /\ imap' = [imap EXCEPT !.view = NoView]
            /\ Goto(r, "failed")
  /\ Moves(r, "index")
  /\ UNCHANGED <<logVars, ifile, dataVars, want, hit, len, shared, dialogVars>>

\* Faulty variant: the view is labelled from the sequence before it.
LabelIndexBefore(r) ==
  /\ pc[r] = "labelindex"
  /\ imap' = [imap EXCEPT !.first = ViewOf(want[r]) - 1,
                          !.last = ViewOf(want[r]) + IndexMapUnit - 2]
  /\ Settles(r, "index")
  /\ Goto(r, "index")
  /\ UNCHANGED <<logVars, ifile, dataVars, want, hit, len, shared, dialogVars, faults>>

\* Then its labels, FirstSequence and LastSequence, and the lookup starts again.
LabelIndex(r) ==
  /\ pc[r] = "labelindex"
  /\ imap' = [imap EXCEPT !.first = ViewOf(want[r]),
                          !.last = ViewOf(want[r]) + IndexMapUnit - 1]
  /\ Settles(r, "index")
  /\ Goto(r, "index")
  /\ UNCHANGED <<logVars, ifile, dataVars, want, hit, len, shared, dialogVars, faults>>

\* Faulty variant: the length is not read again.
FollowIndexLengthNot(r) ==
  /\ pc[r] = "followindex"
  /\ Goto(r, "reopenindex")
  /\ UNCHANGED <<logVars, indexVars, dataVars, want, hit, len, shared, mixed, dialogVars, faults>>

\* The index file has grown: read its length under the spin lock.
FollowIndexLength(r) ==
  /\ pc[r] = "followindex"
  /\ ifile' = indexLength
  /\ Goto(r, "reopenindex")
  /\ UNCHANGED <<logVars, imap, dataVars, want, hit, len, shared, mixed, dialogVars, faults>>

\* The section is closed before another is created.
CloseIndex(r) ==
  /\ pc[r] = "reopenindex"
  /\ imap' = [imap EXCEPT !.section = 0]
  /\ Goto(r, "openindex")
  /\ UNCHANGED <<logVars, ifile, dataVars, want, hit, len, shared, mixed, dialogVars, faults>>

OpenIndex(r) ==
  /\ pc[r] = "openindex"
  /\ \/ /\ imap' = [imap EXCEPT !.section = indexLength]
        /\ Goto(r, "index")
        /\ UNCHANGED faults
     \/ /\ Fault
        /\ imap' = [imap EXCEPT !.section = 0]
        /\ Goto(r, "failed")
  /\ UNCHANGED <<logVars, ifile, dataVars, want, hit, len, shared, mixed, dialogVars>>

--------------------------------------------------------------------------------
(***************************************************************************)
(* MspLookupMappingObject: a view of two units from the one the record      *)
(* starts in, so that a record that crosses into the second is in it.       *)
(***************************************************************************)
ViewStart(e) == RoundDown(e.start, DataMapUnit)
ViewEnd(e)   == ViewStart(e) + 2 * DataMapUnit

\* Faulty variant: any view that holds the record's first unit will do.
LookupDataByStart(r) ==
  /\ pc[r] = "data"
  /\ Goto(r, IF dmap.lo <= hit[r].start /\ hit[r].start < dmap.hi
             THEN "copy" ELSE "unmapdata")
  /\ UNCHANGED <<logVars, indexVars, dataVars, want, hit, len, shared, mixed, dialogVars, faults>>

LookupData(r) ==
  /\ pc[r] = "data"
  /\ Goto(r, IF dmap.lo <= ViewStart(hit[r]) /\ ViewEnd(hit[r]) <= dmap.hi
             THEN "copy" ELSE "unmapdata")
  /\ UNCHANGED <<logVars, indexVars, dataVars, want, hit, len, shared, mixed, dialogVars, faults>>

\* Where no view is mapped its labels are left as they are.
UnmapData(r) ==
  /\ pc[r] = "unmapdata"
  /\ dmap' = IF dmap.from = NoView THEN dmap
             ELSE [section |-> dmap.section, from |-> NoView, to |-> 0, lo |-> 0, hi |-> 0]
  /\ Moves(r, "data")
  /\ Goto(r, IF ViewEnd(hit[r]) <= dfile \/ report THEN "mapdata" ELSE "datalength")
  /\ UNCHANGED <<logVars, indexVars, dfile, want, hit, len, shared, dialogVars, faults>>

\* Two units if the file is known to have them; else up to its end.
MapData(r) ==
  /\ pc[r] = "mapdata"
  /\ LET end  == Min2(ViewEnd(hit[r]), dfile)
         fits == end <= dmap.section
     IN  \/ /\ fits
            /\ dmap' = [dmap EXCEPT !.from = ViewStart(hit[r]), !.to = end]
            /\ len' = [len EXCEPT ![r] = end]
            /\ Goto(r, "labeldata")
            /\ UNCHANGED faults
         \/ /\ IF fits THEN Fault ELSE UNCHANGED faults
            /\ dmap' = [dmap EXCEPT !.from = NoView, !.to = 0]
            /\ Goto(r, "failed")
            /\ UNCHANGED len
  /\ Moves(r, "data")
  /\ UNCHANGED <<logVars, indexVars, dfile, want, hit, shared, dialogVars>>

\* MappedOffset and MappedLength, after MappedVa.
LabelData(r) ==
  /\ pc[r] = "labeldata"
  /\ dmap' = [dmap EXCEPT !.lo = ViewStart(hit[r]), !.hi = len[r]]
  /\ Settles(r, "data")
  /\ Goto(r, "copy")
  /\ UNCHANGED <<logVars, indexVars, dfile, want, hit, len, shared, dialogVars, faults>>

ReadDataLength(r) ==
  /\ pc[r] = "datalength"
  /\ len' = [len EXCEPT ![r] = dataLength]
  /\ Goto(r, IF dataLength = dfile THEN "mapdata" ELSE "reopendata")
  /\ UNCHANGED <<logVars, indexVars, dataVars, want, hit, shared, mixed, dialogVars, faults>>

\* MspCloseMappingObject, then the new length.
CloseData(r) ==
  /\ pc[r] = "reopendata"
  /\ dfile' = len[r]
  /\ dmap' = [section |-> 0, from |-> NoView, to |-> 0, lo |-> 0, hi |-> 0]
  /\ Moves(r, "data")
  /\ Goto(r, "opendata")
  /\ UNCHANGED <<logVars, indexVars, want, hit, len, shared, dialogVars, faults>>

\* MspCreateMappingObject: the new view must lie within the length; without it the
\* section stays closed.
OpenData(r) ==
  /\ pc[r] = "opendata"
  /\ \/ /\ ViewEnd(hit[r]) <= dfile
        /\ dmap' = [dmap EXCEPT !.section = dataLength,
                                !.from = ViewStart(hit[r]), !.to = ViewEnd(hit[r])]
        /\ len' = [len EXCEPT ![r] = ViewEnd(hit[r])]
        /\ Goto(r, "labeldata")
        /\ UNCHANGED faults
     \/ /\ IF ViewEnd(hit[r]) <= dfile THEN Fault ELSE UNCHANGED faults
        /\ Goto(r, "failed")
        /\ UNCHANGED <<dmap, len>>
  /\ Moves(r, "data")
  /\ UNCHANGED <<logVars, indexVars, dfile, want, hit, shared, dialogVars>>

--------------------------------------------------------------------------------
\* The view shows what its labels say, and all of an extent.
InView(e) == dmap.from = dmap.lo /\ dmap.lo <= e.start /\ EndOf(e) <= dmap.to

\* MspCopyRecord, unguarded: the record is looked for at its distance from MappedOffset,
\* and its length is read there; in a view of another place it may be any.
CopyRecord(r) ==
  /\ pc[r] = "copy"
  /\ \E label \in IF InView(hit[r]) THEN {"copied"}
                  ELSE IF dmap.from \in {dmap.lo, NoView} THEN {"crashed"}
                  ELSE {"copied", "crashed"} :
       Goto(r, label)
  /\ UNCHANGED <<logVars, indexVars, dataVars, want, hit, len, shared, mixed, dialogVars, faults>>

\* Back to the caller; the work item goes on whatever the status.
Return(r) ==
  /\ pc[r] \in {"copied", "failed"}
  /\ Goto(r, "idle")
  /\ scanned' = IF report /\ r = Scanner THEN scanned + 1 ELSE scanned
  /\ want' = [want EXCEPT ![r] = 0]
  /\ hit' = [hit EXCEPT ![r] = NoExtent]
  /\ len' = [len EXCEPT ![r] = 0]
  /\ shared' = shared \ {r}
  /\ UNCHANGED <<logVars, indexVars, dataVars, mixed, stall, faults>>

ReaderStep(r) ==
  \/ LookupIndex(r)       \/ ReadEntry(r)  \/ UnmapIndex(r)     \/ MapIndex(r)
  \/ LabelIndex(r)        \/ FollowIndexLength(r)
  \/ CloseIndex(r)        \/ OpenIndex(r)
  \/ LookupData(r)        \/ UnmapData(r)  \/ MapData(r)        \/ LabelData(r)
  \/ ReadDataLength(r)    \/ CloseData(r)  \/ OpenData(r)
  \/ CopyRecord(r)        \/ Return(r)

Next ==
  \/ \E size \in RecordSizes : WriteRecord(size)
  \/ ExtendData \/ ExtendIndex
  \/ \E e \in written : CountRecord(e)
  \/ \E s \in 0 .. Count : View(s)
  \/ ScanNext \/ ScanTimer \/ ScanCancel
  \/ \E s \in 0 .. Count - 1 : SaveLast(s)
  \/ SaveLooksUp
  \/ \E r \in Readers : ReaderStep(r)

Spec == Init /\ [][Next]_vars

\* Threads run; whether the window asks for anything is up to the user.
Fairness ==
  /\ \A r \in Readers : WF_vars(ReaderStep(r))
  /\ WF_vars(ScanNext)
  /\ WF_vars(ScanTimer)

FairSpec == Spec /\ Fairness

--------------------------------------------------------------------------------
Labels == {"idle", "index", "entry", "unmapindex", "mapindex", "labelindex",
           "followindex", "reopenindex", "openindex", "data", "unmapdata", "mapdata",
           "labeldata", "datalength", "reopendata", "opendata", "copy", "copied",
           "failed", "crashed"}
Extents == [start : Nat, size : Nat]

\* The ranges of every variable.  What could go wrong: a view that is labelled
\* with sequences before the first.
TypeOK ==
  /\ report \in BOOLEAN /\ log \in Seq(Extents)
  /\ written \subseteq Extents /\ validLength \in Nat
  /\ dataLength \in Nat /\ indexLength \in Nat /\ ifile \in Nat /\ dfile \in Nat
  /\ imap \in [section : Nat, view : Nat \cup {NoView}, first : Nat, last : Nat]
  /\ dmap \in [section : Nat, from : Nat \cup {NoView}, to : Nat, lo : Nat, hi : Nat]
  /\ pc \in [Readers -> Labels]
  /\ want \in [Readers -> Nat] /\ hit \in [Readers -> Extents]
  /\ len \in [Readers -> Nat]
  /\ shared \subseteq Readers /\ mixed \subseteq {"index", "data"}
  /\ stall \in BOOLEAN /\ scanned \in Nat /\ faults \in 0 .. MaxFaults

\* The readers that had the two views for themselves.
Alone == Readers \ shared

\* The extent a reader follows is that of the sequence number it was asked
\* for, through however many views of a growing index file it went: the window
\* never shows one record in the line of another.
FoundIsAsked ==
  \A r \in Alone :
    "index" \notin mixed /\ pc[r] \in {"data", "unmapdata", "mapdata", "labeldata",
          "datalength", "reopendata", "opendata", "copy", "copied"} =>
      want[r] < Count /\ hit[r] = log[want[r] + 1]

\* "we need enlarge the mapping to ensure it's mapped by a single view"
\* (mspdtl.c): when a reader alone copies a record all of it is in the view, also
\* at the end of the file, after an extension and after failed calls.
RecordMapped == \A r \in Alone : "data" \notin mixed /\ pc[r] = "copy" => InView(hit[r])

\* MspLookupIndexBySequence reads an entry only from a view that has it, as
\* long as every earlier view could be mapped (after a failure the labels of
\* the lost view stay and the null view is read).
EntryMapped ==
  \A r \in Alone :
    "index" \notin mixed /\ pc[r] = "entry" /\ faults = 0 =>
      imap.view = imap.first /\ SequenceMapped(want[r])

\* What a reader that is alone copies is the record it was asked for, and all of
\* it is mapped: FoundIsAsked, RecordMapped and EntryMapped.  The exception is a view
\* that overlapping calls have moved: it may have the labels of another, and readers
\* that come later read through it until one of them needs another place.
CopiesAskedRecord == FoundIsAsked /\ RecordMapped /\ EntryMapped

\* MspCopyRecord ends: following the growing files never sends a reader that is
\* alone round for ever.
CopyReturns ==
  \A r \in Readers : (pc[r] = "index") ~> (pc[r] \in {"idle", "crashed"} \/ r \in shared)

\* Unless the user cancels before the last record was scanned, the window of a
\* report and the work item never use the two views at the same time.
OneReader ==
  report /\ (stall \/ scanned >= Count) => pc[Viewer] = "idle" \/ pc[Scanner] = "idle"
================================================================================
