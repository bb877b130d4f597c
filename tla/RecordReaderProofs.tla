--------------------------- MODULE RecordReaderProofs ---------------------------
(***************************************************************************)
(* Copying records back, for every kind of log, every size of records,      *)
(* views and increments, and every number of records and faults.  The views *)
(* have no lock, so what is proved is about the reader that had them for    *)
(* itself, and about views that no overlapping calls have moved since such  *)
(* a reader mapped them.  Three facts carry the argument.  A view starts    *)
(* where its labels say, or is not mapped at all, or has a reader about to  *)
(* label it.  As long as nothing failed, an index view that was unmapped    *)
(* has a reader that is about to map another, and the section of the index  *)
(* covers the known length or has a reader about to open it again; a reader *)
(* that begins alone therefore finds the view mapped.  And what is known of *)
(* the data file never falls short of the record at hand: a report's file   *)
(* was complete, and in a live session the length is read again before the  *)
(* file is.                                                                 *)
(***************************************************************************)
EXTENDS RecordReader, SequenceTheorems, TLAPS

\* What a reader does once its sequence number was found within the log, and
\* once it has the entry.
OnIndex == {"unmapindex", "mapindex", "labelindex", "followindex", "reopenindex",
            "openindex"}
OnData  == {"data", "unmapdata", "mapdata", "labeldata", "datalength", "reopendata",
            "opendata", "copy", "copied"}

\* The ranges of the variables, those of the log and the files first.
Lengths ==
  /\ report \in BOOLEAN
  /\ dataLength \in Nat /\ indexLength \in Nat /\ ifile \in Nat /\ dfile \in Nat
  /\ scanned \in Nat /\ faults \in 0 .. MaxFaults

\* The two mappings.
Views ==
  /\ imap \in [section : Nat, view : Nat \cup {NoView}, first : Nat, last : Nat]
  /\ dmap \in [section : Nat, from : Nat \cup {NoView}, to : Nat, lo : Nat, hi : Nat]

\* What each reader is at.
Calls ==
  /\ pc \in [Readers -> Labels] /\ want \in [Readers -> Nat]
  /\ hit \in [Readers -> Extents] /\ len \in [Readers -> Nat]
  /\ shared \subseteq Readers /\ mixed \subseteq {"index", "data"}
  /\ stall \in BOOLEAN

\* Every record is as large as a record may be and lies in the data file, before
\* it is counted and after.
Records ==
  /\ log \in Seq([start : Nat, size : RecordSizes])
  /\ written \subseteq [start : Nat, size : RecordSizes] /\ validLength \in Nat
  /\ \A i \in 1 .. Count : EndOf(log[i]) <= dataLength
  /\ \A e \in written : EndOf(e) <= dataLength
  /\ report => written = {}

\* A whole number of views.
Aligned(n) == \E k \in Nat : n = k * IndexMapUnit

\* The index file is one, and so is what is known of it, which is no more.
IndexLengths == Aligned(indexLength) /\ Aligned(ifile) /\ ifile <= indexLength

\* A reader whose call overlapped no other is the only one at work.
OthersIdle == \A r \in Alone : pc[r] # "idle" => \A q \in Readers \ {r} : pc[q] = "idle"

\* Past the first check the record asked for is in the log.
InLog == \A r \in Readers : pc[r] \in OnIndex \cup {"entry"} \cup OnData => want[r] < Count

\* A report is not followed: its file was complete when it was opened.
Complete ==
  report => /\ dfile = dataLength
            /\ \A r \in Readers : pc[r] \notin {"datalength", "reopendata", "opendata"}

\* The dialog that counts a report's records keeps the window from it.
Dialog ==
  /\ stall => pc[Viewer] = "idle"
  /\ report /\ pc[Scanner] # "idle" => scanned < Count

\* What a reader follows is a record, and in the file.
Hits ==
  \A r \in Readers : pc[r] \in OnData =>
    hit[r] \in [start : Nat, size : RecordSizes] /\ EndOf(hit[r]) <= dataLength

\* The index view starts where its labels say, until the next is mapped and not yet
\* labelled; as long as nothing failed its section covers the known length but while
\* a reader is about to open it again.
IndexView ==
  /\ "index" \notin mixed =>
       imap.view \in {NoView, imap.first} \/ \E r \in Readers : pc[r] = "labelindex"
  /\ \A r \in Readers : pc[r] = "mapindex" => ViewOf(want[r]) < ifile
  /\ faults = 0 =>
       imap.section >= ifile \/ \E r \in Readers : pc[r] \in {"reopenindex", "openindex"}

\* A reader that may have unmapped the view and is there to map another, unless
\* it has crashed.
Unmapper(r) ==
  \/ pc[r] \in OnIndex \cup {"index", "entry"} /\ want[r] < Count
  \/ pc[r] = "crashed"

\* As long as nothing failed, a view that is not mapped has such a reader.
Mapped ==
  faults = 0 /\ "index" \notin mixed /\ imap.view = NoView => \E r \in Readers : Unmapper(r)

\* What a reader that is alone knows of the index view.
EntryView ==
  \A r \in Alone :
    /\ pc[r] = "entry" => SequenceMapped(want[r])
    /\ pc[r] = "labelindex" => imap.view = ViewOf(want[r])
    /\ faults = 0 /\ "index" \notin mixed =>
         /\ pc[r] = "index" => imap.view # NoView \/ ~SequenceMapped(want[r])
         /\ pc[r] \in OnIndex => ~SequenceMapped(want[r])
         /\ pc[r] = "entry" => imap.view # NoView

\* The data view shows what its labels say, or nothing, or is about to be labelled.
DataLabels ==
  "data" \notin mixed =>
    \/ dmap.from = dmap.lo /\ dmap.to = dmap.hi
    \/ dmap.from = NoView /\ dmap.hi = 0
    \/ \E r \in Readers : pc[r] = "labeldata"

\* What a reader that is alone knows of the record and of the data view.
DataView ==
  \A r \in Alone :
    /\ "index" \notin mixed /\ pc[r] \in OnData => hit[r] = log[want[r] + 1]
    /\ pc[r] = "mapdata" => EndOf(hit[r]) <= dfile
    /\ "data" \notin mixed /\ pc[r] \in {"mapdata", "datalength"} => dmap.hi = 0
    /\ pc[r] = "labeldata" =>
         /\ dmap.from = ViewStart(hit[r]) /\ dmap.to = len[r]
         /\ EndOf(hit[r]) <= len[r]
    /\ "data" \notin mixed /\ pc[r] = "copy" => InView(hit[r])

\* The inductive invariant.
IInv ==
  /\ Lengths /\ Views /\ Calls /\ Records /\ IndexLengths
  /\ OthersIdle /\ InLog /\ Complete /\ Dialog /\ Hits
  /\ IndexView /\ Mapped /\ EntryView /\ DataLabels /\ DataView
-----------------------------------------------------------------------------
\* The constants' types, and that an increment holds a view.
LEMMA Sizes ==
  /\ DataMapUnit \in Nat \ {0} /\ RecordSizes \subseteq 1 .. DataMapUnit
  /\ DataIncrement \in Nat /\ DataMapUnit <= DataIncrement
  /\ IndexMapUnit \in Nat \ {0} /\ IndexIncrement \in Nat
  /\ MaxRecords \in Nat /\ MaxFaults \in Nat
<1>1. /\ DataMapUnit \in Nat \ {0} /\ RecordSizes \subseteq 1 .. DataMapUnit
      /\ DataIncrement \in Nat \ {0} /\ DataIncrement % DataMapUnit = 0
      /\ IndexMapUnit \in Nat \ {0} /\ IndexIncrement \in Nat
      /\ MaxRecords \in Nat /\ MaxFaults \in Nat
  BY UnitsAssumption
<1>2. \A n \in Nat \ {0}, u \in Nat \ {0} : n % u = 0 => u <= n
  <2> SUFFICES ASSUME NEW n \in Nat \ {0}, NEW u \in Nat \ {0}, n % u = 0, n < u
               PROVE  FALSE
    OBVIOUS
  <2>1. n % u = n
    OBVIOUS
  <2> QED
    BY <2>1
<1> QED
  BY <1>1, <1>2

\* Rounding down to a multiple, and the distance to it.
LEMMA Rounds ==
  ASSUME NEW x \in Nat, NEW unit \in Nat \ {0}
  PROVE  /\ RoundDown(x, unit) \in Nat
         /\ RoundDown(x, unit) <= x /\ x < RoundDown(x, unit) + unit
         /\ \E k \in Nat : RoundDown(x, unit) = k * unit
<1> DEFINE k == x \div unit
<1>1. k \in Nat
  OBVIOUS
<1>2. x % unit \in 0 .. unit - 1
  OBVIOUS
<1>3. x = unit * k + (x % unit)
  OBVIOUS
<1>4. unit * k = k * unit /\ k * unit \in Nat
  BY <1>1
<1>5. RoundDown(x, unit) = k * unit
  BY DEF RoundDown
<1> HIDE DEF k
<1>6. k * unit <= x /\ x < k * unit + unit
  BY <1>2, <1>3, <1>4
<1> QED
  BY <1>1, <1>4, <1>5, <1>6

\* Rounding up to one.
LEMMA RoundsUp ==
  ASSUME NEW x \in Nat, NEW unit \in Nat \ {0}
  PROVE  /\ RoundUp(x, unit) \in Nat /\ x <= RoundUp(x, unit)
         /\ \E k \in Nat : RoundUp(x, unit) = k * unit
<1>1. x + unit - 1 \in Nat /\ unit \in Nat \ {0}
  OBVIOUS
<1>2. /\ RoundDown(x + unit - 1, unit) \in Nat
      /\ x + unit - 1 < RoundDown(x + unit - 1, unit) + unit
      /\ \E k \in Nat : RoundDown(x + unit - 1, unit) = k * unit
  BY <1>1, Rounds
<1> QED
  BY <1>2 DEF RoundUp

\* Views added to views.
LEMMA AlignedSum ==
  ASSUME NEW n, NEW m, Aligned(n), Aligned(m)
  PROVE  Aligned(n + m)
<1>1. PICK k \in Nat : n = k * IndexMapUnit
  BY DEF Aligned
<1>2. PICK j \in Nat : m = j * IndexMapUnit
  BY DEF Aligned
<1>3. n + m = (k + j) * IndexMapUnit /\ k + j \in Nat
  BY <1>1, <1>2, Sizes
<1> QED
  BY <1>3 DEF Aligned

\* A file that is longer than some views has one more.
LEMMA AlignedRoom ==
  ASSUME NEW n, NEW m, Aligned(n), Aligned(m), n < m
  PROVE  n + IndexMapUnit <= m
<1>1. PICK k \in Nat : n = k * IndexMapUnit
  BY DEF Aligned
<1>2. PICK j \in Nat : m = j * IndexMapUnit
  BY DEF Aligned
<1>3. IndexMapUnit \in Nat \ {0}
  BY Sizes
<1>4. k < j
  <2>1. j <= k => j * IndexMapUnit <= k * IndexMapUnit
    BY <1>3
  <2>2. k * IndexMapUnit \in Nat /\ j * IndexMapUnit \in Nat
    BY <1>3
  <2> QED
    BY <1>1, <1>2, <2>1, <2>2
<1>5. k + 1 <= j => (k + 1) * IndexMapUnit <= j * IndexMapUnit
  BY <1>3
<1>6. (k + 1) * IndexMapUnit = n + IndexMapUnit
  BY <1>1, <1>3
<1> QED
  BY <1>1, <1>2, <1>4, <1>5, <1>6

\* An increment is a number of views.
LEMMA IncrementAligned == Aligned(IndexIncrement)
<1>1. IndexIncrement \in Nat /\ IndexMapUnit \in Nat \ {0} /\ IndexIncrement % IndexMapUnit = 0
  BY UnitsAssumption
<1>2. /\ IndexIncrement \div IndexMapUnit \in Nat
      /\ IndexIncrement = (IndexIncrement \div IndexMapUnit) * IndexMapUnit
  BY <1>1
<1> QED
  BY <1>2 DEF Aligned

\* The views that a reader maps start at such multiples.
LEMMA ViewAligned ==
  ASSUME NEW s \in Nat PROVE ViewOf(s) \in Nat /\ Aligned(ViewOf(s))
BY Sizes, Rounds DEF ViewOf, Aligned

\* A record of a size that records have is an extent.
LEMMA RecordExtent ==
  ASSUME NEW e \in [start : Nat, size : RecordSizes]
  PROVE  e \in Extents /\ EndOf(e) \in Nat
<1>1. RecordSizes \subseteq Nat
  BY Sizes
<1>2. e.start \in Nat /\ e.size \in Nat
  BY <1>1
<1>3. e = [start |-> e.start, size |-> e.size]
  OBVIOUS
<1> QED
  BY <1>2, <1>3 DEF Extents, EndOf

\* Two units from the one a record starts in hold the record.
LEMMA ViewHolds ==
  ASSUME NEW e \in [start : Nat, size : RecordSizes]
  PROVE  /\ ViewStart(e) \in Nat /\ ViewEnd(e) \in Nat /\ EndOf(e) \in Nat
         /\ ViewStart(e) <= e.start /\ EndOf(e) <= ViewEnd(e)
<1>1. e.start \in Nat /\ e.size \in 1 .. DataMapUnit /\ DataMapUnit \in Nat \ {0}
  BY Sizes
<1>2. /\ ViewStart(e) \in Nat
      /\ ViewStart(e) <= e.start /\ e.start < ViewStart(e) + DataMapUnit
  BY <1>1, Rounds DEF ViewStart
<1> QED
  BY <1>1, <1>2 DEF ViewEnd, EndOf
-----------------------------------------------------------------------------
\* A step of the session that is logged.
Session ==
  \/ \E size \in RecordSizes : WriteRecord(size)
  \/ ExtendData \/ ExtendIndex
  \/ \E e \in written : CountRecord(e)

\* It is a live session, and no reader and no view notices.
LEMMA SessionLeaves ==
  ASSUME Session
  PROVE  /\ UNCHANGED <<report, indexVars, dataVars, readerVars, dialogVars, faults>>
         /\ dataLength' \in {dataLength, dataLength + DataIncrement}
         /\ indexLength' \in {indexLength, indexLength + IndexIncrement}
BY DEF Session, WriteRecord, ExtendData, ExtendIndex, CountRecord

\* The files only grow, by increments, and faults are counted.
LEMMA LengthsStep ==
  ASSUME Lengths, Calls, Next PROVE Lengths'
<1> USE DEF Lengths, Fault, logVars, indexVars, dataVars, dialogVars
<1>1. CASE Session
  BY <1>1, SessionLeaves, Sizes
<1>2. CASE \/ \E s \in 0 .. Count : View(s)
           \/ ScanNext \/ ScanTimer \/ ScanCancel
           \/ \E s \in 0 .. Count - 1 : SaveLast(s)
           \/ SaveLooksUp
  BY <1>2 DEF View, ScanNext, ScanTimer, ScanCancel, SaveLast, SaveLooksUp
<1>3. ASSUME NEW r \in Readers, ReaderStep(r) PROVE Lengths'
  <2> USE Sizes
  <2>1. CASE LookupIndex(r) \/ ReadEntry(r) \/ UnmapIndex(r) \/ LabelIndex(r)
    BY <2>1 DEF LookupIndex, ReadEntry, UnmapIndex, LabelIndex
  <2>2. CASE MapIndex(r)
    BY <2>2 DEF MapIndex
  <2>3. CASE FollowIndexLength(r) \/ CloseIndex(r)
    BY <2>3 DEF FollowIndexLength, CloseIndex
  <2>4. CASE OpenIndex(r)
    BY <2>4 DEF OpenIndex
  <2>5. CASE LookupData(r) \/ UnmapData(r) \/ LabelData(r) \/ ReadDataLength(r)
             \/ CopyRecord(r)
    BY <2>5 DEF LookupData, UnmapData, LabelData, ReadDataLength, CopyRecord
  <2>6. CASE MapData(r)
    BY <2>6 DEF MapData
  <2>7. CASE CloseData(r) \/ OpenData(r)
    BY <2>7 DEF CloseData, OpenData, Calls
  <2>8. CASE Return(r)
    BY <2>8 DEF Return
  <2> QED
    BY <1>3, <2>1, <2>2, <2>3, <2>4, <2>5, <2>6, <2>7, <2>8 DEF ReaderStep
<1> QED
  BY <1>1, <1>2, <1>3 DEF Next, Session

\* The view for the extent that a reader holds starts and ends at natural numbers.
LEMMA StartIsNat == ASSUME Calls, NEW r \in Readers
  PROVE  ViewStart(hit[r]) \in Nat /\ ViewEnd(hit[r]) \in Nat
<1>1. hit[r].start \in Nat /\ DataMapUnit \in Nat \ {0}
  BY Sizes DEF Calls, Extents
<1>2. ViewStart(hit[r]) \in Nat
  BY <1>1, Rounds DEF ViewStart
<1> QED
  BY <1>1, <1>2 DEF ViewEnd

\* Every action keeps the types of the two mappings.
LEMMA ViewsStep ==
  ASSUME Lengths, Views, Calls, Next PROVE Views'
<1> USE DEF indexVars, dataVars
<1>1. CASE \/ Session
           \/ \E s \in 0 .. Count : View(s)
           \/ ScanNext \/ ScanTimer \/ ScanCancel
           \/ \E s \in 0 .. Count - 1 : SaveLast(s)
           \/ SaveLooksUp
  BY <1>1, SessionLeaves DEF View, ScanNext, ScanTimer, ScanCancel, SaveLast, SaveLooksUp, Views
<1>2. ASSUME NEW r \in Readers, ReaderStep(r) PROVE Views'
  <2>0. want[r] \in Nat /\ ViewOf(want[r]) \in Nat /\ IndexMapUnit \in Nat \ {0}
    BY ViewAligned, Sizes DEF Calls
  <2>1. CASE UNCHANGED <<imap, dmap>>
    BY <2>1 DEF Views
  <2>2. CASE UnmapIndex(r)
    BY <2>2 DEF UnmapIndex, Views
  <2>3. CASE MapIndex(r)
    BY <2>0, <2>3 DEF MapIndex, Views
  <2>4. CASE LabelIndex(r)
    <3>1. ViewOf(want[r]) + IndexMapUnit - 1 \in Nat
      BY <2>0
    <3> QED
      BY <2>0, <2>4, <3>1 DEF LabelIndex, Views
  <2>5. CASE CloseIndex(r) \/ OpenIndex(r)
    BY <2>5 DEF CloseIndex, OpenIndex, Views, Lengths
  <2>6. CASE UnmapData(r) \/ CloseData(r)
    BY <2>6 DEF UnmapData, CloseData, Views
  <2>7. CASE MapData(r)
    <3>1. Min2(ViewEnd(hit[r]), dfile) \in Nat /\ ViewStart(hit[r]) \in Nat
      BY StartIsNat DEF Min2, Lengths
    <3>2. /\ imap' = imap
          /\ \/ dmap' = [dmap EXCEPT !.from = ViewStart(hit[r]),
                                     !.to = Min2(ViewEnd(hit[r]), dfile)]
             \/ dmap' = [dmap EXCEPT !.from = NoView, !.to = 0]
      BY <2>7 DEF MapData
    <3>3. dmap' \in [section : Nat, from : Nat \cup {NoView}, to : Nat, lo : Nat, hi : Nat]
      <4>1. ASSUME NEW from \in Nat \cup {NoView}, NEW to \in Nat,
                   dmap' = [dmap EXCEPT !.from = from, !.to = to]
            PROVE  dmap' \in [section : Nat, from : Nat \cup {NoView}, to : Nat,
                              lo : Nat, hi : Nat]
        BY <4>1 DEF Views
      <4> HIDE DEF Views
      <4> QED
        BY <3>1, <3>2, <4>1
    <3> QED
      BY <3>2, <3>3 DEF Views
  <2>8. CASE LabelData(r) \/ OpenData(r)
    <3>1. ViewStart(hit[r]) \in Nat /\ ViewEnd(hit[r]) \in Nat /\ len[r] \in Nat
          /\ dataLength \in Nat
      BY StartIsNat DEF Calls, Lengths
    <3>2. /\ imap' = imap
          /\ \/ dmap' = dmap
             \/ dmap' = [dmap EXCEPT !.lo = ViewStart(hit[r]), !.hi = len[r]]
             \/ dmap' = [dmap EXCEPT !.section = dataLength,
                                     !.from = ViewStart(hit[r]), !.to = ViewEnd(hit[r])]
      BY <2>8 DEF LabelData, OpenData
    <3> QED
      BY <3>1, <3>2 DEF Views
  <2>9. \/ UNCHANGED <<imap, dmap>> \/ UnmapIndex(r) \/ MapIndex(r) \/ LabelIndex(r)
        \/ CloseIndex(r) \/ OpenIndex(r) \/ UnmapData(r) \/ MapData(r) \/ LabelData(r)
        \/ CloseData(r) \/ OpenData(r)
    BY <1>2 DEF ReaderStep, LookupIndex, ReadEntry, FollowIndexLength, LookupData,
                ReadDataLength, CopyRecord, Return
  <2> QED
    BY <2>1, <2>2, <2>3, <2>4, <2>5, <2>6, <2>7, <2>8, <2>9
<1> QED
  BY <1>1, <1>2 DEF Next, Session
-----------------------------------------------------------------------------
\* Every step is the call of a reader, the return of one, a step on the way or
\* one of the log and the dialog.
CallOf(r, s) ==
  /\ Call(r, s) /\ s <= Count
  /\ UNCHANGED <<logVars, indexVars, dataVars, hit, len, mixed, dialogVars, faults>>
  /\ r = Viewer => ~stall
  /\ r = Scanner /\ report => scanned < Count

\* A reader returns; the work item of a report has scanned one more record.
ReturnOf(r) ==
  /\ pc[r] \in {"data", "copied", "failed"} /\ Goto(r, "idle")
  /\ want' = [want EXCEPT ![r] = 0] /\ hit' = [hit EXCEPT ![r] = NoExtent]
  /\ len' = [len EXCEPT ![r] = 0] /\ shared' = shared \ {r}
  /\ UNCHANGED <<logVars, indexVars, dataVars, mixed, stall, faults>>
  /\ scanned' = scanned \/ (report /\ r = Scanner /\ scanned' = scanned + 1)

\* A step of a call between its beginning and its end.
OnTheWay(r) ==
  \/ LookupIndex(r)    \/ ReadEntry(r)         \/ UnmapIndex(r)  \/ MapIndex(r)
  \/ LabelIndex(r)     \/ FollowIndexLength(r) \/ CloseIndex(r)  \/ OpenIndex(r)
  \/ LookupData(r)     \/ UnmapData(r)         \/ MapData(r)     \/ LabelData(r)
  \/ ReadDataLength(r) \/ CloseData(r)         \/ OpenData(r)    \/ CopyRecord(r)

\* The window leaves stall mode, or nothing happens.
Leaves ==
  /\ stall' \in {stall, FALSE} /\ UNCHANGED <<logVars, indexVars, dataVars, readerVars>>
  /\ UNCHANGED <<scanned, faults>>

\* Every step is one of them.
LEMMA NextCases ==
  ASSUME Lengths, Calls, Records, Next
  PROVE  \/ Session
         \/ \E r \in Readers : \E s \in Nat : CallOf(r, s)
         \/ \E r \in Readers : OnTheWay(r)
         \/ \E r \in Readers : ReturnOf(r)
         \/ Leaves
<1>0. Count \in Nat /\ Viewer \in Readers /\ Scanner \in Readers /\ Viewer # Scanner
  BY ReadersAssumption DEF Records, Count, Readers
<1>1. ASSUME NEW s \in 0 .. Count, View(s) PROVE CallOf(Viewer, s) /\ s \in Nat
  BY <1>0, <1>1 DEF View, CallOf
<1>2. ScanNext => CallOf(Scanner, scanned) /\ scanned \in Nat
  BY <1>0 DEF ScanNext, CallOf, Lengths
<1>3. ASSUME NEW s \in 0 .. Count - 1, SaveLast(s) PROVE CallOf(Scanner, s) /\ s \in Nat
  BY <1>0, <1>3 DEF SaveLast, CallOf
<1>4. SaveLooksUp => ReturnOf(Scanner)
  BY DEF SaveLooksUp, ReturnOf, dialogVars
<1>5. ASSUME NEW r \in Readers, Return(r) PROVE ReturnOf(r)
  BY <1>5 DEF Return, ReturnOf
<1>6. ScanTimer \/ ScanCancel => Leaves
  BY DEF ScanTimer, ScanCancel, Leaves
<1>7. ASSUME NEW r \in Readers, ReaderStep(r) PROVE OnTheWay(r) \/ Return(r)
  BY <1>7 DEF ReaderStep, OnTheWay
<1>8. CASE \E s \in 0 .. Count : View(s)
  BY <1>0, <1>1, <1>8
<1>9. CASE ScanNext
  BY <1>0, <1>2, <1>9
<1>10. CASE \E s \in 0 .. Count - 1 : SaveLast(s)
  BY <1>0, <1>3, <1>10
<1>11. CASE SaveLooksUp
  BY <1>0, <1>4, <1>11
<1>12. CASE \E r \in Readers : ReaderStep(r)
  BY <1>5, <1>7, <1>12
<1> QED
  BY <1>6, <1>8, <1>9, <1>10, <1>11, <1>12 DEF Next, Session

\* A step on the way: where it goes, and what it leaves alone.
Onward(r) ==
  \/ /\ pc[r] = "index" /\ want[r] < Count /\ pc'[r] \in {"entry", "unmapindex"}
  \/ /\ pc[r] = "entry" /\ pc'[r] \in {"data", "crashed"}
  \/ /\ pc[r] \in OnIndex /\ pc'[r] \in OnIndex \cup {"index"}
  \/ /\ pc[r] \in OnData /\ pc'[r] \in OnData \cup {"crashed"}
  \/ /\ pc[r] \in OnIndex \cup OnData \cup {"index", "entry"} /\ pc'[r] = "failed"

\* A step on the way moves its reader alone and leaves the log and the dialog.
LEMMA WayKeeps ==
  ASSUME NEW r \in Readers, OnTheWay(r), Calls, Records
  PROVE  /\ pc' = [pc EXCEPT ![r] = pc'[r]] /\ Onward(r)
         /\ UNCHANGED <<logVars, want, shared, dialogVars>>
<1>0. pc \in [Readers -> Labels]
  BY DEF Calls
<1> USE <1>0 DEF Goto, Onward, OnIndex, OnData
<1>1. CASE LookupIndex(r) \/ ReadEntry(r)
  BY <1>1 DEF LookupIndex, ReadEntry
<1>2. CASE UnmapIndex(r) \/ MapIndex(r) \/ LabelIndex(r)
  BY <1>2 DEF UnmapIndex, MapIndex, LabelIndex
<1>3. CASE FollowIndexLength(r) \/ CloseIndex(r) \/ OpenIndex(r)
  BY <1>3 DEF FollowIndexLength, CloseIndex, OpenIndex
<1>4. CASE LookupData(r) \/ UnmapData(r) \/ MapData(r) \/ LabelData(r)
  BY <1>4 DEF LookupData, UnmapData, MapData, LabelData
<1>5. CASE ReadDataLength(r) \/ CloseData(r) \/ OpenData(r) \/ CopyRecord(r)
  BY <1>5 DEF ReadDataLength, CloseData, OpenData, CopyRecord
<1> QED
  BY <1>1, <1>2, <1>3, <1>4, <1>5 DEF OnTheWay

\* A reader is moved by its own steps alone: it calls, it is on the way, or it returns.
LEMMA OwnStep ==
  ASSUME Lengths, Calls, Records, Next, NEW q \in Readers
  PROVE  \/ pc'[q] = pc[q] /\ want'[q] = want[q]
         \/ pc[q] = "idle" /\ pc'[q] = "index"
         \/ pc[q] \in {"data", "copied", "failed"} /\ pc'[q] = "idle"
         \/ OnTheWay(q) /\ want' = want
<1> USE DEF Goto
<1>0. pc \in [Readers -> Labels] /\ want \in [Readers -> Nat]
  BY DEF Calls
<1>1. CASE Session \/ Leaves
  BY <1>1, SessionLeaves DEF Leaves, readerVars
<1>2. ASSUME NEW r \in Readers, NEW s \in Nat, CallOf(r, s)
      PROVE  \/ pc'[q] = pc[q] /\ want'[q] = want[q]
             \/ pc[q] = "idle" /\ pc'[q] = "index"
  BY <1>0, <1>2 DEF CallOf, Call
<1>3. ASSUME NEW r \in Readers, OnTheWay(r)
      PROVE  \/ pc'[q] = pc[q] /\ want'[q] = want[q]
             \/ OnTheWay(q) /\ want' = want
  <2>1. pc' = [pc EXCEPT ![r] = pc'[r]] /\ want' = want
    BY <1>3, WayKeeps
  <2> QED
    BY <1>0, <1>3, <2>1
<1>4. ASSUME NEW r \in Readers, ReturnOf(r)
      PROVE  \/ pc'[q] = pc[q] /\ want'[q] = want[q]
             \/ pc[q] \in {"data", "copied", "failed"} /\ pc'[q] = "idle"
  BY <1>0, <1>4 DEF ReturnOf
<1> QED
  BY <1>1, <1>2, <1>3, <1>4, NextCases

\* Only a reader that is alone and labels a view takes it from the mixed ones, and
\* one that is not adds those that it moves.
LEMMA MixedStep ==
  ASSUME Lengths, Calls, Records, Next
  PROVE  /\ mixed' \subseteq mixed \cup {"index", "data"}
         /\ "index" \notin mixed' =>
              \/ "index" \notin mixed
              \/ \E r \in Alone : LabelIndex(r)
         /\ "data" \notin mixed' =>
              \/ "data" \notin mixed
              \/ \E r \in Alone : LabelData(r)
<1> USE DEF Moves, Settles, Alone
<1>1. CASE Session \/ Leaves
  BY <1>1, SessionLeaves DEF Leaves, readerVars
<1>2. ASSUME NEW r \in Readers, NEW s \in Nat, CallOf(r, s) \/ ReturnOf(r)
      PROVE  mixed' = mixed
  BY <1>2 DEF CallOf, ReturnOf
<1>3. ASSUME NEW r \in Readers, OnTheWay(r)
      PROVE  /\ mixed' \subseteq mixed \cup {"index", "data"}
             /\ "index" \notin mixed' =>
                  "index" \notin mixed \/ (LabelIndex(r) /\ r \notin shared)
             /\ "data" \notin mixed' =>
                  "data" \notin mixed \/ (LabelData(r) /\ r \notin shared)
  <2>1. CASE UnmapIndex(r) \/ MapIndex(r)
    BY <2>1 DEF UnmapIndex, MapIndex
  <2>2. CASE LabelIndex(r)
    BY <2>2 DEF LabelIndex
  <2>3. CASE UnmapData(r) \/ MapData(r) \/ CloseData(r) \/ OpenData(r)
    BY <2>3 DEF UnmapData, MapData, CloseData, OpenData
  <2>4. CASE LabelData(r)
    BY <2>4 DEF LabelData
  <2>5. CASE LookupIndex(r) \/ ReadEntry(r) \/ FollowIndexLength(r)
             \/ CloseIndex(r) \/ OpenIndex(r)
    BY <2>5 DEF LookupIndex, ReadEntry, FollowIndexLength, CloseIndex, OpenIndex
  <2>6. CASE LookupData(r) \/ ReadDataLength(r) \/ CopyRecord(r)
    BY <2>6 DEF LookupData, ReadDataLength, CopyRecord
  <2> QED
    BY <1>3, <2>1, <2>2, <2>3, <2>4, <2>5, <2>6 DEF OnTheWay
<1> QED
  BY <1>1, <1>2, <1>3, NextCases

\* Only the two mappings' actions change them, and only the reads change what a
\* reader knows.
LEMMA CallsStep ==
  ASSUME Lengths, Views, Calls, Records, Next PROVE Calls'
<1>0. NoExtent \in Extents
  BY DEF NoExtent, Extents
<1>1. CASE Session
  BY <1>1, SessionLeaves DEF readerVars, dialogVars, Calls
<1>2. ASSUME NEW r \in Readers, NEW s \in Nat, CallOf(r, s) PROVE Calls'
  <2>1. shared' \subseteq Readers /\ mixed' = mixed
    BY <1>2 DEF CallOf, Call
  <2> QED
    BY <1>2, <2>1 DEF CallOf, Call, Goto, dialogVars, Calls, Labels
<1>3. ASSUME NEW r \in Readers, OnTheWay(r) PROVE Calls'
  <2>1. pc' = [pc EXCEPT ![r] = pc'[r]] /\ Onward(r) /\ UNCHANGED <<want, shared, stall>>
    BY <1>3, WayKeeps DEF dialogVars
  <2>2. pc'[r] \in Labels
    BY <2>1 DEF Onward, OnIndex, OnData, Labels
  <2>3. pc' \in [Readers -> Labels]
    BY <2>1, <2>2 DEF Calls
  <2>4. len' \in [Readers -> Nat]
    <3>1. CASE ReadDataLength(r)
      BY <3>1 DEF ReadDataLength, Calls, Lengths
    <3>2. CASE MapData(r)
      <4>1. Min2(ViewEnd(hit[r]), dfile) \in Nat
        BY StartIsNat DEF Min2, Lengths
      <4> QED
        BY <3>2, <4>1 DEF MapData, Calls
    <3>3. CASE OpenData(r)
      BY <3>3, StartIsNat DEF OpenData, Calls
    <3>4. CASE ~(ReadDataLength(r) \/ MapData(r) \/ OpenData(r))
      BY <1>3, <3>4 DEF OnTheWay, LookupIndex, ReadEntry, UnmapIndex, MapIndex, LabelIndex,
                        FollowIndexLength, CloseIndex, OpenIndex, LookupData, UnmapData,
                        LabelData, CloseData, CopyRecord, Calls
    <3> QED
      BY <3>1, <3>2, <3>3, <3>4
  <2>5. hit' \in [Readers -> Extents]
    <3>1. CASE ReadEntry(r)
      <4>1. CASE hit' = hit
        BY <4>1 DEF Calls
      <4>2. CASE \E e \in written : hit' = [hit EXCEPT ![r] = e]
        <5>1. written \subseteq Extents
          BY RecordExtent DEF Records
        <5> QED
          BY <4>2, <5>1 DEF Calls
      <4>3. CASE hit' # hit /\ ~ \E e \in written : hit' = [hit EXCEPT ![r] = e]
        <5> DEFINE n == imap.view + (want[r] - imap.first)
        <5>1. /\ hit' = [hit EXCEPT ![r] = log[n + 1]]
              /\ imap.view # NoView /\ want[r] - imap.first \in 0 .. IndexMapUnit - 1
              /\ n < Count
          BY <3>1, <4>3 DEF ReadEntry
        <5>2. /\ imap.view \in Nat /\ want[r] - imap.first \in Nat /\ Count \in Nat
          <6>1. want[r] \in Nat /\ imap.first \in Int /\ IndexMapUnit \in Nat
            BY Sizes DEF Calls, Views
          <6> QED
            BY <5>1, <6>1 DEF Views, Records, Count
        <5>3. n + 1 \in 1 .. Count
          BY <5>1, <5>2
        <5>4. log[n + 1] \in [start : Nat, size : RecordSizes]
          BY <5>3, ElementOfSeq DEF Records, Count
        <5>5. log[n + 1] \in Extents
          BY <5>4, RecordExtent
        <5> HIDE DEF n
        <5> QED
          BY <5>1, <5>5 DEF Calls
      <4> QED
        BY <4>1, <4>2, <4>3
    <3>2. CASE ~ReadEntry(r)
      BY <1>3, <3>2 DEF OnTheWay, LookupIndex, UnmapIndex, MapIndex, LabelIndex,
                        FollowIndexLength, CloseIndex, OpenIndex, LookupData, UnmapData,
                        MapData, LabelData, ReadDataLength, CloseData, OpenData, CopyRecord,
                        Calls
    <3> QED
      BY <3>1, <3>2
  <2>6. mixed' \subseteq {"index", "data"}
    BY MixedStep DEF Calls
  <2> QED
    BY <2>1, <2>3, <2>4, <2>5, <2>6 DEF Calls
<1>4. ASSUME NEW r \in Readers, ReturnOf(r) PROVE Calls'
  BY <1>0, <1>4 DEF ReturnOf, Goto, dialogVars, Calls, Labels
<1>5. CASE Leaves
  BY <1>5 DEF Leaves, readerVars, Calls
<1> QED
  BY <1>1, <1>2, <1>3, <1>4, <1>5, NextCases
-----------------------------------------------------------------------------
\* A report has no session.  Writers take extents of the file, and the index
\* thread adds one of them to the log, which it leaves as it was up to there.
LEMMA SessionGrows ==
  ASSUME Lengths, Records, Session
  PROVE  /\ Records' /\ Count <= Count' /\ Count' \in Nat /\ ~report
         /\ \A i \in 1 .. Count : log'[i] = log[i]
<1> DEFINE E == [start : Nat, size : RecordSizes]
<1>0. /\ log \in Seq(E) /\ Count \in Nat /\ Count = Len(log) /\ written \subseteq E
      /\ dataLength \in Nat /\ validLength \in Nat
      /\ \A i \in 1 .. Count : log[i] \in E /\ EndOf(log[i]) \in Nat
      /\ \A e \in written : EndOf(e) \in Nat
  <2>1. log \in Seq(E)
    BY DEF Records
  <2>2. \A i \in 1 .. Count : log[i] \in E
    BY <2>1, ElementOfSeq DEF Count
  <2> QED
    BY <2>1, <2>2, RecordExtent DEF Records, Count, Lengths
<1>r. ~report /\ ~report'
  BY SessionLeaves DEF Session, WriteRecord, ExtendData, ExtendIndex, RoomForRecord, Records
<1>1. dataLength' \in Nat /\ dataLength <= dataLength'
  BY <1>0, SessionLeaves, Sizes
<1>2. ASSUME log' = log, validLength' \in Nat, written' \subseteq E,
             \A e \in written' : EndOf(e) \in Nat /\ EndOf(e) <= dataLength'
      PROVE  Records' /\ Count' = Count
  <2>1. \A i \in 1 .. Count : EndOf(log[i]) <= dataLength'
    BY <1>0, <1>1 DEF Records
  <2> QED
    BY <1>r, <1>0, <1>2, <2>1 DEF Records, Count, EndOf
<1>3. \A e \in written : EndOf(e) \in Nat /\ EndOf(e) <= dataLength'
  BY <1>0, <1>1 DEF Records
<1>4. ASSUME NEW size \in RecordSizes, WriteRecord(size)
      PROVE  Records' /\ Count' = Count /\ log' = log
  <2> DEFINE e == [start |-> validLength, size |-> size]
  <2>1. e \in E /\ EndOf(e) = validLength + size /\ size \in Nat
    BY <1>0, Sizes DEF EndOf
  <2>2. /\ log' = log /\ validLength' = validLength + size
        /\ written' = written \cup {e} /\ dataLength' = dataLength
        /\ validLength + size <= dataLength
    BY <1>4 DEF WriteRecord
  <2> HIDE DEF e
  <2> QED
    BY <1>0, <1>2, <1>3, <2>1, <2>2
<1>5. ASSUME ExtendData \/ ExtendIndex
      PROVE  Records' /\ Count' = Count /\ log' = log
  <2>1. UNCHANGED <<log, written, validLength>>
    BY <1>5 DEF ExtendData, ExtendIndex
  <2> QED
    BY <1>0, <1>2, <1>3, <2>1
<1>6. ASSUME NEW e \in written, CountRecord(e)
      PROVE  Records' /\ Count' = Count + 1 /\ \A i \in 1 .. Count : log'[i] = log[i]
  <2>1. /\ log' = Append(log, e) /\ written' \subseteq written
        /\ UNCHANGED <<validLength, dataLength>>
    BY <1>6 DEF CountRecord
  <2>2. /\ log' \in Seq(E) /\ Len(log') = Count + 1
        /\ \A i \in 1 .. Count : log'[i] = log[i]
        /\ log'[Count + 1] = e
    BY <1>0, <2>1, AppendProperties
  <2>3. Count' = Count + 1
    BY <2>2 DEF Count
  <2>4. ASSUME NEW i \in 1 .. Count + 1 PROVE EndOf(log'[i]) <= dataLength'
    BY <1>0, <1>3, <2>1, <2>2 DEF Records
  <2> QED
    BY <1>r, <1>0, <1>3, <2>1, <2>2, <2>3, <2>4 DEF Records, EndOf
<1> QED
  BY <1>r, <1>0, <1>4, <1>5, <1>6 DEF Session

\* The others leave the log and the published lengths alone.
LEMMA LogKept ==
  ASSUME Lengths, Views, Calls, Records, Next, ~ Session
  PROVE  UNCHANGED logVars
BY NextCases, WayKeeps DEF CallOf, ReturnOf, Leaves

\* Records are only added.
LEMMA RecordsStep ==
  ASSUME Lengths, Views, Calls, Records, Next PROVE Records'
<1>1. CASE Session
  BY <1>1, SessionGrows
<1>2. CASE ~ Session
  <2>1. UNCHANGED <<report, log, written, validLength, dataLength>>
    BY <1>2, LogKept DEF logVars
  <2> QED
    BY <2>1 DEF Records, EndOf, Count
<1> QED
  BY <1>1, <1>2

\* What is known of the index file changes only to its length.
LEMMA IndexLengthsStep ==
  ASSUME Lengths, Views, Calls, Records, IndexLengths, Next
  PROVE  /\ IndexLengths' /\ ifile <= ifile'
         /\ ifile' # ifile => \E r \in Readers : FollowIndexLength(r)
<1>0. indexLength \in Nat /\ ifile \in Nat /\ IndexIncrement \in Nat
  BY Sizes DEF Lengths
<1>1. CASE Session
  <2>1. /\ ifile' = ifile
        /\ indexLength' \in {indexLength, indexLength + IndexIncrement}
    BY <1>1, SessionLeaves DEF indexVars
  <2>2. Aligned(indexLength + IndexIncrement)
    BY IncrementAligned, AlignedSum DEF IndexLengths
  <2>3. CASE indexLength' = indexLength
    BY <1>0, <2>1, <2>3 DEF IndexLengths, Aligned
  <2>4. CASE indexLength' = indexLength + IndexIncrement
    BY <1>0, <2>1, <2>2, <2>4 DEF IndexLengths, Aligned
  <2> QED
    BY <2>1, <2>3, <2>4
<1>2. CASE ~ Session
  <2>1. indexLength' = indexLength
    BY <1>2, LogKept DEF logVars
  <2>2. CASE \E r \in Readers : FollowIndexLength(r)
    <3>1. ifile' = indexLength
      BY <2>2 DEF FollowIndexLength
    <3> QED
      BY <1>0, <2>1, <2>2, <3>1 DEF IndexLengths, Aligned
  <2>3. CASE ~ \E r \in Readers : FollowIndexLength(r)
    <3>1. ASSUME NEW r \in Readers, OnTheWay(r) PROVE ifile' = ifile
      BY <2>3, <3>1 DEF OnTheWay, LookupIndex, ReadEntry, UnmapIndex, MapIndex, LabelIndex,
                       CloseIndex, OpenIndex, LookupData, UnmapData, MapData, LabelData,
                       ReadDataLength, CloseData, OpenData, CopyRecord, indexVars
    <3>2. ifile' = ifile
      BY <1>2, <3>1, NextCases DEF CallOf, ReturnOf, Leaves, indexVars
    <3> QED
      BY <1>0, <2>1, <3>2 DEF IndexLengths, Aligned
  <2> QED
    BY <2>2, <2>3
<1> QED
  BY <1>1, <1>2

\* A call that overlaps another makes both shared until they return.
LEMMA OthersIdleStep ==
  ASSUME Lengths, Views, Calls, Records, OthersIdle, Next PROVE OthersIdle'
<1> USE DEF OthersIdle, Alone, Goto
<1>0. pc \in [Readers -> Labels] /\ shared \subseteq Readers
  BY DEF Calls
<1>1. CASE Session
  BY <1>1, SessionLeaves DEF readerVars
<1>2. ASSUME NEW r \in Readers, NEW s \in Nat, CallOf(r, s) PROVE OthersIdle'
  <2>1. CASE \E q \in Readers \ {r} : pc[q] # "idle"
    BY <1>2, <2>1 DEF CallOf, Call
  <2>2. CASE \A q \in Readers \ {r} : pc[q] = "idle"
    <3>1. \A q \in Readers \ {r} : pc'[q] = "idle"
      BY <1>0, <1>2, <2>2 DEF CallOf, Call
    <3> QED
      BY <3>1
  <2> QED
    BY <2>1, <2>2
<1>3. ASSUME NEW r \in Readers, OnTheWay(r) PROVE OthersIdle'
  <2>1. pc' = [pc EXCEPT ![r] = pc'[r]] /\ shared' = shared /\ pc[r] # "idle"
    BY <1>3, WayKeeps DEF Onward, OnIndex, OnData
  <2> QED
    BY <1>0, <2>1
<1>4. ASSUME NEW r \in Readers, ReturnOf(r) PROVE OthersIdle'
  BY <1>0, <1>4 DEF ReturnOf
<1>5. CASE Leaves
  BY <1>5 DEF Leaves, readerVars
<1> QED
  BY <1>1, <1>2, <1>3, <1>4, <1>5, NextCases

\* A reader that goes on from the first check has its record in the log.
LEMMA InLogStep ==
  ASSUME Lengths, Views, Calls, Records, InLog, Next PROVE InLog'
<1> USE DEF InLog, OnIndex, OnData, Goto
<1>0. pc \in [Readers -> Labels] /\ want \in [Readers -> Nat] /\ Count \in Nat
  BY DEF Calls, Records, Count
<1>1. CASE Session
  BY <1>0, <1>1, SessionLeaves, SessionGrows DEF readerVars
<1>c. CASE ~ Session
  <2>0. Count' = Count
    BY <1>c, LogKept DEF Count, logVars
  <2>1. ASSUME NEW r \in Readers, NEW s \in Nat, CallOf(r, s) PROVE InLog'
    BY <1>0, <2>0, <2>1 DEF CallOf, Call
  <2>2. ASSUME NEW r \in Readers, OnTheWay(r) PROVE InLog'
    <3>1. pc' = [pc EXCEPT ![r] = pc'[r]] /\ want' = want /\ Onward(r)
      BY <2>2, WayKeeps
    <3> QED
      BY <1>0, <2>0, <3>1 DEF Onward
  <2>3. ASSUME NEW r \in Readers, ReturnOf(r) PROVE InLog'
    BY <1>0, <2>0, <2>3 DEF ReturnOf
  <2>4. CASE Leaves
    BY <2>0, <2>4 DEF Leaves, readerVars
  <2> QED
    BY <1>c, <2>1, <2>2, <2>3, <2>4, NextCases
<1> QED
  BY <1>1, <1>c

\* A report's reader never goes to read the length again.
LEMMA CompleteStep ==
  ASSUME Lengths, Views, Calls, Records, Complete, Next PROVE Complete'
<1> USE DEF Complete, Goto
<1>0. pc \in [Readers -> Labels]
  BY DEF Calls
<1>1. CASE Session
  BY <1>1, SessionLeaves, SessionGrows
<1>c. CASE ~ Session
  <2>0. report' = report /\ dataLength' = dataLength
    BY <1>c, LogKept DEF logVars
  <2>1. ASSUME NEW r \in Readers, NEW s \in Nat, CallOf(r, s) PROVE Complete'
    BY <1>0, <2>0, <2>1 DEF CallOf, Call, dataVars
  <2>2. ASSUME NEW r \in Readers, OnTheWay(r) PROVE Complete'
    <3>1. CASE UnmapData(r)
      BY <1>0, <2>0, <3>1 DEF UnmapData
    <3>2. CASE ReadDataLength(r) \/ CloseData(r) \/ OpenData(r)
      BY <1>0, <2>0, <3>2 DEF ReadDataLength, CloseData, OpenData
    <3>3. CASE LookupIndex(r) \/ ReadEntry(r) \/ UnmapIndex(r) \/ MapIndex(r) \/ LabelIndex(r)
      BY <1>0, <2>0, <3>3 DEF LookupIndex, ReadEntry, UnmapIndex, MapIndex, LabelIndex, dataVars
    <3>4. CASE FollowIndexLength(r) \/ CloseIndex(r) \/ OpenIndex(r)
      BY <1>0, <2>0, <3>4 DEF FollowIndexLength, CloseIndex, OpenIndex, dataVars
    <3>5. CASE LookupData(r) \/ MapData(r) \/ LabelData(r) \/ CopyRecord(r)
      BY <1>0, <2>0, <3>5 DEF LookupData, MapData, LabelData, CopyRecord, dataVars
    <3> QED
      BY <2>2, <3>1, <3>2, <3>3, <3>4, <3>5 DEF OnTheWay
  <2>3. ASSUME NEW r \in Readers, ReturnOf(r) PROVE Complete'
    BY <1>0, <2>0, <2>3 DEF ReturnOf, dataVars
  <2>4. CASE Leaves
    BY <2>0, <2>4 DEF Leaves, readerVars, dataVars
  <2> QED
    BY <1>c, <2>1, <2>2, <2>3, <2>4, NextCases
<1> QED
  BY <1>1, <1>c

\* The work item asks for the records in turn, and the window for none.
LEMMA DialogStep ==
  ASSUME Lengths, Views, Calls, Records, Dialog, Next PROVE Dialog'
<1> USE ReadersAssumption DEF Dialog, Goto
<1>0. pc \in [Readers -> Labels] /\ Viewer \in Readers /\ Scanner \in Readers
      /\ stall \in BOOLEAN
  BY DEF Calls, Readers
<1>1. CASE Session
  BY <1>1, SessionLeaves, SessionGrows DEF readerVars, dialogVars
<1>c. CASE ~ Session
  <2>0. report' = report /\ Count' = Count
    BY <1>c, LogKept DEF logVars, Count
  <2>1. ASSUME NEW r \in Readers, NEW s \in Nat, CallOf(r, s) PROVE Dialog'
    <3>1. UNCHANGED <<stall, scanned>> /\ pc' = [pc EXCEPT ![r] = "index"]
      BY <2>1 DEF CallOf, Call, dialogVars
    <3>2. r \in {Viewer, Scanner}
      BY DEF Readers
    <3> QED
      BY <1>0, <2>0, <2>1, <3>1, <3>2 DEF CallOf
  <2>2. ASSUME NEW r \in Readers, OnTheWay(r) PROVE Dialog'
    <3>1. /\ pc' = [pc EXCEPT ![r] = pc'[r]] /\ UNCHANGED <<stall, scanned>>
          /\ pc[r] # "idle"
      BY <2>2, WayKeeps DEF Onward, OnIndex, OnData, dialogVars
    <3> QED
      BY <1>0, <2>0, <3>1
  <2>3. ASSUME NEW r \in Readers, ReturnOf(r) PROVE Dialog'
    BY <1>0, <2>0, <2>3 DEF ReturnOf
  <2>4. CASE Leaves
    <3>1. UNCHANGED <<pc, scanned>>
      BY <2>4 DEF Leaves, readerVars
    <3>2. stall' = stall \/ stall' = FALSE
      BY <2>4, Zenon DEF Leaves
    <3>3. CASE stall' = stall
      BY <2>0, <3>1, <3>3
    <3>4. CASE stall' = FALSE
      BY <2>0, <3>1, <3>4
    <3> QED
      BY <3>2, <3>3, <3>4
  <2> QED
    BY <1>c, <2>1, <2>2, <2>3, <2>4, NextCases
<1> QED
  BY <1>1, <1>c
-----------------------------------------------------------------------------
\* Only its own steps change the index view, and faults are never taken back.
LEMMA IndexKept ==
  ASSUME Lengths, Views, Calls, Records, Next
  PROVE  /\ faults' = 0 => faults = 0
         /\ \/ imap' = imap
            \/ \E r \in Readers : \/ UnmapIndex(r) \/ MapIndex(r) \/ LabelIndex(r)
                                  \/ CloseIndex(r) \/ OpenIndex(r)
<1>0. faults \in Nat
  BY Sizes DEF Lengths
<1> USE DEF Fault, indexVars
<1>1. ASSUME NEW r \in Readers, OnTheWay(r)
      PROVE  faults' = faults \/ faults' = faults + 1
  <2>1. CASE MapIndex(r) \/ OpenIndex(r)
    BY <2>1 DEF MapIndex, OpenIndex
  <2>2. CASE MapData(r) \/ OpenData(r)
    BY <2>2 DEF MapData, OpenData
  <2> QED
    BY <1>1, <2>1, <2>2 DEF OnTheWay, LookupIndex, ReadEntry, UnmapIndex, LabelIndex,
                            FollowIndexLength, CloseIndex, LookupData, UnmapData, LabelData,
                            ReadDataLength, CloseData, CopyRecord
<1>2. ASSUME NEW r \in Readers, OnTheWay(r)
      PROVE  \/ imap' = imap \/ UnmapIndex(r) \/ MapIndex(r) \/ LabelIndex(r)
             \/ CloseIndex(r) \/ OpenIndex(r)
  BY <1>2 DEF OnTheWay, LookupIndex, ReadEntry, FollowIndexLength, LookupData, UnmapData,
              MapData, LabelData, ReadDataLength, CloseData, OpenData, CopyRecord
<1>3. CASE \/ Session
           \/ \E r \in Readers : \E s \in Nat : CallOf(r, s)
           \/ \E r \in Readers : ReturnOf(r)
           \/ Leaves
  <2>1. imap' = imap /\ faults' = faults
    BY <1>3, SessionLeaves DEF CallOf, ReturnOf, Leaves
  <2> QED
    BY <2>1
<1>4. CASE \E r \in Readers : OnTheWay(r)
  <2>1. faults' = faults \/ faults' = faults + 1
    BY <1>1, <1>4
  <2> QED
    BY <1>0, <1>2, <1>4, <2>1
<1> QED
  BY <1>3, <1>4, NextCases

\* A reader that is at its next label waits there until it sets it.
LEMMA LabelWaits ==
  ASSUME Lengths, Calls, Records, Next, NEW q \in Readers
  PROVE  /\ pc[q] = "labelindex" /\ ~LabelIndex(q) => pc'[q] = "labelindex"
         /\ pc[q] = "labeldata" /\ ~LabelData(q) => pc'[q] = "labeldata"
<1> SUFFICES ASSUME OnTheWay(q), \/ pc[q] = "labelindex" /\ ~LabelIndex(q)
                                 \/ pc[q] = "labeldata" /\ ~LabelData(q)
             PROVE  FALSE
  BY OwnStep
<1>1. ~LookupIndex(q) /\ ~ReadEntry(q) /\ ~UnmapIndex(q) /\ ~MapIndex(q) /\ ~LabelIndex(q)
  BY DEF LookupIndex, ReadEntry, UnmapIndex, MapIndex, LabelIndex
<1>2. ~FollowIndexLength(q) /\ ~CloseIndex(q) /\ ~OpenIndex(q)
  BY DEF FollowIndexLength, CloseIndex, OpenIndex
<1>3. ~LookupData(q) /\ ~UnmapData(q) /\ ~MapData(q) /\ ~LabelData(q)
  BY DEF LookupData, UnmapData, MapData, LabelData
<1>4. ~ReadDataLength(q) /\ ~CloseData(q) /\ ~OpenData(q) /\ ~CopyRecord(q)
  BY DEF ReadDataLength, CloseData, OpenData, CopyRecord
<1> QED
  BY <1>1, <1>2, <1>3, <1>4 DEF OnTheWay

\* A view that is mapped anew is about to be labelled, and opening the file again
\* makes up for reading its length.
LEMMA IndexViewStep ==
  ASSUME Lengths, Views, Calls, Records, IndexLengths, IndexView, EntryView, Next
  PROVE  IndexView'
<1> USE DEF Goto
<1>0. /\ pc \in [Readers -> Labels] /\ want \in [Readers -> Nat]
      /\ ifile \in Nat /\ ifile' \in Nat /\ indexLength \in Nat
      /\ imap \in [section : Nat, view : Nat \cup {NoView}, first : Nat, last : Nat]
  BY LengthsStep DEF Calls, Lengths, Views
<1>1. ifile <= ifile'
  BY IndexLengthsStep
<1>2. ASSUME "index" \notin mixed'
      PROVE  imap'.view \in {NoView, imap'.first} \/ \E r \in Readers : pc'[r] = "labelindex"
  <2>1. ASSUME NEW r \in Readers, UnmapIndex(r) \/ MapIndex(r)
        PROVE  imap'.view = NoView \/ pc'[r] = "labelindex"
    BY <1>0, <2>1 DEF UnmapIndex, MapIndex
  <2>2. ASSUME NEW r \in Readers, LabelIndex(r)
        PROVE  imap'.view = imap'.first
    <3>1. r \in Alone /\ pc[r] = "labelindex"
      BY <1>2, <2>2 DEF LabelIndex, Settles, Alone
    <3> QED
      BY <1>0, <2>2, <3>1 DEF LabelIndex, EntryView
  <2>3. CASE ~ \E r \in Readers : UnmapIndex(r) \/ MapIndex(r) \/ LabelIndex(r)
    <3>1. imap'.view = imap.view /\ imap'.first = imap.first
      BY <1>0, <2>3, IndexKept DEF CloseIndex, OpenIndex
    <3>2. "index" \notin mixed
      BY <1>2, <2>3, MixedStep DEF Alone
    <3> QED
      BY <2>3, <3>1, <3>2, LabelWaits DEF IndexView
  <2> QED
    BY <2>1, <2>2, <2>3
<1>3. ASSUME NEW q \in Readers, pc'[q] = "mapindex" PROVE ViewOf(want'[q]) < ifile'
  <2>1. /\ want'[q] = want[q]
        /\ pc[q] = "mapindex" \/ UnmapIndex(q)
    <3>1. CASE OnTheWay(q) /\ want' = want
      <4>1. ~LookupIndex(q) /\ ~ReadEntry(q) /\ ~LabelIndex(q) /\ ~FollowIndexLength(q)
        BY <1>0, <1>3 DEF LookupIndex, ReadEntry, LabelIndex, FollowIndexLength
      <4>2. MapIndex(q) => pc[q] = "mapindex"
        BY DEF MapIndex
      <4>3. ~CloseIndex(q) /\ ~OpenIndex(q) /\ ~LookupData(q) /\ ~UnmapData(q)
        BY <1>0, <1>3 DEF CloseIndex, OpenIndex, LookupData, UnmapData
      <4>4. ~MapData(q) /\ ~LabelData(q) /\ ~ReadDataLength(q) /\ ~CloseData(q)
        BY <1>0, <1>3 DEF MapData, LabelData, ReadDataLength, CloseData
      <4>5. ~OpenData(q) /\ ~CopyRecord(q)
        BY <1>0, <1>3 DEF OpenData, CopyRecord
      <4> QED
        BY <3>1, <4>1, <4>2, <4>3, <4>4, <4>5 DEF OnTheWay
    <3> QED
      BY <1>3, <3>1, OwnStep
  <2>2. ViewOf(want[q]) < ifile
    <3>1. CASE pc[q] = "mapindex"
      BY <3>1 DEF IndexView
    <3>2. CASE UnmapIndex(q)
      BY <1>0, <1>3, <3>2 DEF UnmapIndex
    <3> QED
      BY <2>1, <3>1, <3>2
  <2>3. ViewOf(want[q]) \in Nat
    BY <1>0, ViewAligned
  <2> QED
    BY <1>0, <1>1, <2>1, <2>2, <2>3
<1>4. ASSUME faults' = 0
      PROVE  imap'.section >= ifile' \/ \E r \in Readers : pc'[r] \in {"reopenindex", "openindex"}
  <2>1. imap.section >= ifile \/ \E r \in Readers : pc[r] \in {"reopenindex", "openindex"}
    BY <1>4, IndexKept DEF IndexView
  <2>2. CASE \E r \in Readers : FollowIndexLength(r)
    BY <1>0, <2>2 DEF FollowIndexLength
  <2>3. CASE \E r \in Readers : CloseIndex(r)
    BY <1>0, <2>3 DEF CloseIndex
  <2>4. CASE \E r \in Readers : OpenIndex(r)
    <3>1. PICK r \in Readers : OpenIndex(r)
      BY <2>4
    <3>2. CASE imap' = [imap EXCEPT !.section = indexLength]
      BY <1>0, <3>1, <3>2 DEF OpenIndex, IndexLengths
    <3>3. CASE Fault
      BY <1>4, <3>3, IndexKept DEF Fault
    <3> QED
      BY <3>1, <3>2, <3>3 DEF OpenIndex
  <2>5. CASE ~ \E r \in Readers : FollowIndexLength(r) \/ CloseIndex(r) \/ OpenIndex(r)
    <3>1. ifile' = ifile
      BY <2>5, IndexLengthsStep
    <3>2. imap'.section = imap.section
      BY <1>0, <2>5, IndexKept DEF UnmapIndex, MapIndex, LabelIndex
    <3>3. ASSUME NEW q \in Readers, pc[q] \in {"reopenindex", "openindex"}
          PROVE  pc'[q] = pc[q]
      <4>1. ~OnTheWay(q)
        BY <2>5, <3>3 DEF OnTheWay, LookupIndex, ReadEntry, UnmapIndex, MapIndex, LabelIndex,
             LookupData, UnmapData, MapData, LabelData, ReadDataLength, CloseData, OpenData,
             CopyRecord
      <4> QED
        BY <3>3, <4>1, OwnStep
    <3> QED
      BY <2>1, <3>1, <3>2, <3>3
  <2> QED
    BY <2>2, <2>3, <2>4, <2>5
<1> QED
  BY <1>2, <1>3, <1>4 DEF IndexView

\* The reader that unmapped the index view is there, unless it crashed, until a
\* view was mapped; where it cannot be mapped another is about to open the file.
LEMMA MappedStep ==
  ASSUME Lengths, Views, Calls, Records, IndexLengths, InLog, IndexView, EntryView, Mapped, Next
  PROVE  Mapped'
<1> USE DEF Goto
<1>0. /\ pc \in [Readers -> Labels] /\ want \in [Readers -> Nat]
      /\ ifile \in Nat /\ indexLength \in Nat /\ Count \in Nat /\ Count' \in Nat
      /\ imap \in [section : Nat, view : Nat \cup {NoView}, first : Nat, last : Nat]
  BY RecordsStep DEF Calls, Lengths, Views, Records, Count
<1> SUFFICES ASSUME faults' = 0, "index" \notin mixed', imap'.view = NoView
             PROVE  \E r \in Readers : Unmapper(r)'
  BY DEF Mapped
<1>1. faults = 0
  BY IndexKept
<1>2. Count <= Count'
  <2>1. CASE Session
    BY <2>1, SessionGrows
  <2>2. CASE ~ Session
    BY <1>0, <2>2, LogKept DEF Count, logVars
  <2> QED
    BY <2>1, <2>2
<1>3. "index" \notin mixed
  <2>1. ASSUME NEW r \in Alone, LabelIndex(r) PROVE FALSE
    <3>1. r \in Readers /\ imap.view = ViewOf(want[r])
      BY <2>1 DEF LabelIndex, EntryView, Alone
    <3>2. imap'.view = imap.view
      BY <1>0, <2>1 DEF LabelIndex
    <3> QED
      BY <1>0, <3>1, <3>2, ViewAligned DEF NoView
  <2> QED
    BY <2>1, MixedStep
<1>4. ASSUME NEW r \in Readers, UnmapIndex(r) PROVE Unmapper(r)'
  <2>1. pc[r] \in OnIndex /\ pc'[r] \in OnIndex /\ want' = want
    BY <1>0, <1>4 DEF UnmapIndex, OnIndex
  <2>2. want[r] < Count
    BY <2>1 DEF InLog
  <2> QED
    BY <1>0, <1>2, <2>1, <2>2 DEF Unmapper
<1>5. ASSUME NEW r \in Readers, MapIndex(r) PROVE \E q \in Readers : Unmapper(q)'
  <2>1. /\ ViewOf(want[r]) \in Nat /\ Aligned(ViewOf(want[r]))
        /\ ViewOf(want[r]) < ifile /\ IndexMapUnit \in Nat
    BY <1>0, <1>5, ViewAligned, Sizes DEF MapIndex, IndexView
  <2>2. ViewOf(want[r]) + IndexMapUnit <= ifile
    BY <2>1, AlignedRoom DEF IndexLengths
  <2>3. ~(ViewOf(want[r]) + IndexMapUnit <= imap.section)
    <3>1. CASE imap' = [imap EXCEPT !.view = ViewOf(want[r])]
      BY <1>0, <2>1, <3>1 DEF NoView
    <3>2. CASE Fault
      BY <1>1, <3>2 DEF Fault
    <3> QED
      BY <1>5, <3>1, <3>2 DEF MapIndex
  <2>4. ~(imap.section >= ifile)
    BY <1>0, <2>1, <2>2, <2>3
  <2>5. PICK q \in Readers : pc[q] \in {"reopenindex", "openindex"}
    BY <1>1, <2>4 DEF IndexView
  <2>6. q # r
    BY <1>5, <2>5 DEF MapIndex
  <2>7. pc'[q] = pc[q] /\ want' = want /\ want[q] < Count
    BY <1>0, <1>5, <2>5, <2>6 DEF MapIndex, InLog, OnIndex
  <2> QED
    BY <1>0, <1>2, <2>5, <2>7 DEF Unmapper, OnIndex
<1>6. ASSUME imap'.view = imap.view, ~ \E r \in Readers : UnmapIndex(r) \/ MapIndex(r)
      PROVE  \E q \in Readers : Unmapper(q)'
  <2>1. PICK q \in Readers : Unmapper(q)
    BY <1>1, <1>3, <1>6 DEF Mapped
  <2>2. CASE pc'[q] = pc[q] /\ want'[q] = want[q]
    BY <1>0, <1>2, <2>1, <2>2 DEF Unmapper
  <2>3. CASE OnTheWay(q) /\ want' = want
    <3>1. ~LookupData(q) /\ ~UnmapData(q) /\ ~MapData(q) /\ ~LabelData(q)
      BY <2>1 DEF LookupData, UnmapData, MapData, LabelData, Unmapper, OnIndex
    <3>2. ~ReadDataLength(q) /\ ~CloseData(q) /\ ~OpenData(q) /\ ~CopyRecord(q)
      BY <2>1 DEF ReadDataLength, CloseData, OpenData, CopyRecord, Unmapper, OnIndex
    <3>3. CASE ReadEntry(q)
      <4>1. pc'[q] = "crashed"
        BY <1>0, <1>6, <3>3 DEF ReadEntry, indexVars
      <4> QED
        BY <4>1 DEF Unmapper
    <3>4. CASE LookupIndex(q)
      <4>1. want[q] < Count /\ pc'[q] \in {"entry", "unmapindex"}
        BY <1>0, <2>1, <3>4 DEF LookupIndex, Unmapper, OnIndex
      <4> QED
        BY <1>0, <1>2, <2>3, <4>1 DEF Unmapper, OnIndex
    <3>5. CASE LabelIndex(q) \/ FollowIndexLength(q) \/ CloseIndex(q)
      <4>1. /\ pc[q] \in OnIndex
            /\ pc'[q] \in OnIndex \cup {"index"}
        BY <1>0, <3>5 DEF LabelIndex, FollowIndexLength, CloseIndex, OnIndex
      <4>2. want[q] < Count
        BY <4>1 DEF InLog
      <4> QED
        BY <1>0, <1>2, <2>3, <4>1, <4>2 DEF Unmapper
    <3>6. CASE OpenIndex(q)
      <4>1. pc'[q] = "index" /\ pc[q] \in OnIndex
        BY <1>0, <1>1, <3>6 DEF OpenIndex, Fault, OnIndex
      <4>2. want[q] < Count
        BY <4>1 DEF InLog
      <4> QED
        BY <1>0, <1>2, <2>3, <4>1, <4>2 DEF Unmapper
    <3> QED
      BY <1>6, <2>3, <3>1, <3>2, <3>3, <3>4, <3>5, <3>6 DEF OnTheWay
  <2>4. ~(pc[q] = "idle") /\ ~(pc[q] \in {"data", "copied", "failed"})
    BY <2>1 DEF Unmapper, OnIndex
  <2> QED
    BY <2>2, <2>3, <2>4, OwnStep
<1>7. \/ \E r \in Readers : UnmapIndex(r) \/ MapIndex(r)
      \/ imap'.view = imap.view
  BY <1>0, IndexKept DEF LabelIndex, CloseIndex, OpenIndex
<1> QED
  BY <1>4, <1>5, <1>6, <1>7
-----------------------------------------------------------------------------
\* What a step is to a reader that has the views for itself after it: nothing,
\* the end or the beginning of its call, or a step of its own.
Unseen(r) ==
  /\ r \in Alone /\ UNCHANGED <<imap, dfile, dmap, pc, want, hit, len, mixed>>
  /\ (faults' = 0 => faults = 0)
  /\ \A i \in 1 .. Count : log'[i] = log[i]

\* The reader calls while nobody else is at work.
Begins(r) ==
  /\ \A q \in Readers : pc[q] = "idle"
  /\ pc'[r] = "index" /\ UNCHANGED <<imap, faults, mixed>>

\* These are all the cases of a step that leaves a reader alone.
LEMMA AloneCases ==
  ASSUME Lengths, Views, Calls, Records, OthersIdle, Next, NEW r \in Readers, r \in Alone'
  PROVE  pc'[r] = "idle" \/ Unseen(r) \/ Begins(r) \/ (r \in Alone /\ OnTheWay(r))
<1> USE DEF Alone, Goto
<1>0. pc \in [Readers -> Labels]
  BY DEF Calls
<1>1. CASE Session
  BY <1>1, SessionLeaves, SessionGrows DEF Unseen, indexVars, dataVars, readerVars
<1>2. ASSUME NEW q \in Readers, NEW s \in Nat, CallOf(q, s)
      PROVE  pc'[r] = "idle" \/ Begins(r)
  <2>1. \A p \in Readers \ {q} : pc[p] = "idle"
    BY <1>2 DEF CallOf, Call
  <2>2. pc' = [pc EXCEPT ![q] = "index"] /\ pc[q] = "idle"
        /\ UNCHANGED <<imap, faults, mixed>>
    BY <1>2 DEF CallOf, Call, indexVars
  <2> QED
    BY <1>0, <2>1, <2>2 DEF Begins
<1>3. ASSUME NEW q \in Readers, OnTheWay(q)
      PROVE  pc'[r] = "idle" \/ (r \in Alone /\ OnTheWay(r))
  <2>1. pc' = [pc EXCEPT ![q] = pc'[q]] /\ shared' = shared /\ pc[q] # "idle"
    BY <1>3, WayKeeps DEF Onward, OnIndex, OnData
  <2>2. CASE r = q
    BY <1>3, <2>1, <2>2
  <2>3. CASE r # q
    BY <1>0, <2>1, <2>3 DEF OthersIdle
  <2> QED
    BY <2>2, <2>3
<1>4. ASSUME NEW q \in Readers, ReturnOf(q) PROVE pc'[r] = "idle"
  BY <1>0, <1>4 DEF ReturnOf, OthersIdle
<1>5. CASE Leaves
  BY <1>5 DEF Leaves, Unseen, indexVars, dataVars, readerVars, logVars
<1> QED
  BY <1>1, <1>2, <1>3, <1>4, <1>5, NextCases

\* A reader that is alone begins with a view that is mapped, and finds no
\* place in the labels of one that was lost but those of another view.
LEMMA EntryViewStep ==
  ASSUME Lengths, Views, Calls, Records, OthersIdle, IndexLengths, InLog, IndexView, Mapped,
         EntryView, Next
  PROVE  EntryView'
<1> USE DEF Goto
<1>0. /\ pc \in [Readers -> Labels] /\ want \in [Readers -> Nat]
      /\ ifile \in Nat /\ Count \in Nat
      /\ imap \in [section : Nat, view : Nat \cup {NoView}, first : Nat, last : Nat]
  BY DEF Calls, Lengths, Views, Records, Count
<1> SUFFICES ASSUME NEW r \in Readers, r \in Alone'
             PROVE  /\ pc'[r] = "entry" => SequenceMapped(want[r])'
                    /\ pc'[r] = "labelindex" => imap'.view = ViewOf(want'[r])
                    /\ faults' = 0 /\ "index" \notin mixed' =>
                         /\ pc'[r] = "index" => imap'.view # NoView \/ ~SequenceMapped(want[r])'
                         /\ pc'[r] \in OnIndex => ~SequenceMapped(want[r])'
                         /\ pc'[r] = "entry" => imap'.view # NoView
  BY DEF EntryView, Alone, ViewOf
<1>1. CASE pc'[r] = "idle"
  BY <1>1 DEF OnIndex
<1>2. CASE Unseen(r)
  BY <1>2 DEF Unseen, EntryView, SequenceMapped
<1>3. CASE Begins(r)
  <2>1. \A q \in Readers : ~Unmapper(q)
    BY <1>3 DEF Begins, Unmapper, OnIndex
  <2> QED
    BY <1>3, <2>1 DEF Begins, Mapped, OnIndex
<1>4. CASE r \in Alone /\ OnTheWay(r)
  <2>0. /\ want' = want
        /\ faults' = 0 => faults = 0
        /\ pc[r] = "entry" => SequenceMapped(want[r])
        /\ pc[r] = "labelindex" => imap.view = ViewOf(want[r])
        /\ faults = 0 /\ "index" \notin mixed =>
             /\ pc[r] = "index" => imap.view # NoView \/ ~SequenceMapped(want[r])
             /\ pc[r] \in OnIndex => ~SequenceMapped(want[r])
             /\ pc[r] = "entry" => imap.view # NoView
    BY <1>4, WayKeeps, IndexKept DEF EntryView
  <2>1. CASE LookupIndex(r)
    <3>1. imap' = imap /\ mixed' = mixed
      BY <2>1 DEF LookupIndex, indexVars
    <3> QED
      BY <1>0, <2>0, <2>1, <3>1 DEF LookupIndex, SequenceMapped, OnIndex
  <2>2. CASE UnmapIndex(r)
    <3>1. /\ imap'.first = imap.first /\ imap'.last = imap.last
          /\ pc[r] = "unmapindex" /\ pc'[r] \in {"mapindex", "followindex"}
          /\ "index" \notin mixed' => "index" \notin mixed
      BY <1>0, <2>2 DEF UnmapIndex, Moves
    <3> QED
      BY <2>0, <3>1 DEF SequenceMapped, OnIndex
  <2>3. CASE MapIndex(r)
    <3>1. /\ imap'.first = imap.first /\ imap'.last = imap.last
          /\ pc[r] = "mapindex"
          /\ \/ pc'[r] = "failed"
             \/ pc'[r] = "labelindex" /\ imap'.view = ViewOf(want[r])
          /\ "index" \notin mixed' => "index" \notin mixed
      BY <1>0, <2>3 DEF MapIndex, Moves
    <3> QED
      BY <2>0, <3>1 DEF SequenceMapped, OnIndex
  <2>4. CASE LabelIndex(r)
    <3>1. /\ pc[r] = "labelindex" /\ pc'[r] = "index"
          /\ imap'.view = imap.view
      BY <1>0, <2>4 DEF LabelIndex
    <3>2. ViewOf(want[r]) # NoView
      BY <1>0, ViewAligned DEF NoView
    <3> QED
      BY <2>0, <3>1, <3>2 DEF OnIndex
  <2>5. CASE FollowIndexLength(r)
    <3>1. /\ imap' = imap /\ mixed' = mixed
          /\ pc[r] = "followindex" /\ pc'[r] = "reopenindex"
      BY <1>0, <2>5 DEF FollowIndexLength
    <3> QED
      BY <2>0, <3>1 DEF SequenceMapped, OnIndex
  <2>6. CASE CloseIndex(r) \/ OpenIndex(r)
    <3>1. /\ imap'.first = imap.first /\ imap'.last = imap.last /\ mixed' = mixed
          /\ pc[r] \in {"reopenindex", "openindex"}
          /\ pc'[r] \in {"openindex", "index", "failed"}
      BY <1>0, <2>6 DEF CloseIndex, OpenIndex
    <3> QED
      BY <2>0, <3>1 DEF SequenceMapped, OnIndex
  <2>7. CASE ~(LookupIndex(r) \/ UnmapIndex(r) \/ MapIndex(r) \/ LabelIndex(r)
               \/ FollowIndexLength(r) \/ CloseIndex(r) \/ OpenIndex(r))
    <3>1. pc'[r] \notin OnIndex \cup {"index", "entry"}
      <4>1. CASE ReadEntry(r) \/ LookupData(r) \/ UnmapData(r) \/ MapData(r) \/ LabelData(r)
        BY <1>0, <4>1 DEF ReadEntry, LookupData, UnmapData, MapData, LabelData, OnIndex
      <4>2. CASE ReadDataLength(r) \/ CloseData(r) \/ OpenData(r) \/ CopyRecord(r)
        BY <1>0, <4>2 DEF ReadDataLength, CloseData, OpenData, CopyRecord, OnIndex
      <4> QED
        BY <1>4, <2>7, <4>1, <4>2 DEF OnTheWay
    <3> QED
      BY <3>1 DEF OnIndex
  <2> QED
    BY <2>1, <2>2, <2>3, <2>4, <2>5, <2>6, <2>7
<1> QED
  BY <1>1, <1>2, <1>3, <1>4, AloneCases

\* Whatever view the entry is read through, it is that of a record.
LEMMA HitsStep ==
  ASSUME Lengths, Views, Calls, Records, Hits, Next PROVE Hits'
<1> USE DEF Goto
<1> DEFINE E == [start : Nat, size : RecordSizes]
<1>0. /\ pc \in [Readers -> Labels] /\ hit \in [Readers -> Extents] /\ want \in [Readers -> Nat]
      /\ dataLength \in Nat /\ dataLength' \in Nat /\ Count \in Nat
      /\ imap \in [section : Nat, view : Nat \cup {NoView}, first : Nat, last : Nat]
  BY LengthsStep DEF Calls, Lengths, Records, Count, Views
<1>1. dataLength <= dataLength'
  <2>1. CASE Session
    BY <1>0, <2>1, SessionLeaves, Sizes
  <2>2. CASE ~ Session
    BY <1>0, <2>2, LogKept DEF logVars
  <2> QED
    BY <2>1, <2>2
<1> SUFFICES ASSUME NEW q \in Readers, pc'[q] \in OnData
             PROVE  hit'[q] \in E /\ EndOf(hit'[q]) <= dataLength'
  BY DEF Hits, EndOf
<1>2. CASE hit'[q] = hit[q] /\ pc[q] \in OnData
  <2>1. hit[q] \in E /\ EndOf(hit[q]) <= dataLength
    BY <1>2 DEF Hits
  <2>2. EndOf(hit[q]) \in Nat
    BY <2>1, RecordExtent
  <2> QED
    BY <1>0, <1>1, <1>2, <2>1, <2>2
<1>3. CASE ReadEntry(q)
  <2>0. pc'[q] = "data" /\ dataLength' = dataLength
    BY <1>0, <1>3 DEF ReadEntry, OnData, logVars
  <2>1. CASE \E e \in written : hit' = [hit EXCEPT ![q] = e]
    <3>1. \A e \in written : e \in E /\ EndOf(e) <= dataLength
      BY DEF Records
    <3> QED
      BY <1>0, <2>0, <2>1, <3>1
  <2>2. CASE ~ \E e \in written : hit' = [hit EXCEPT ![q] = e]
    <3> DEFINE n == imap.view + (want[q] - imap.first)
    <3>1. /\ hit' = [hit EXCEPT ![q] = log[n + 1]]
          /\ imap.view # NoView /\ want[q] - imap.first \in 0 .. IndexMapUnit - 1
          /\ n < Count
      BY <1>0, <1>3, <2>0, <2>2 DEF ReadEntry
    <3>2. imap.view \in Nat /\ want[q] - imap.first \in Nat
      BY <1>0, <3>1, Sizes
    <3>3. n + 1 \in 1 .. Count
      BY <1>0, <3>1, <3>2
    <3>4. log[n + 1] \in E
      BY <3>3, ElementOfSeq DEF Records, Count
    <3>5. EndOf(log[n + 1]) <= dataLength
      BY <3>3 DEF Records
    <3> HIDE DEF n, E
    <3> QED
      BY <1>0, <2>0, <3>1, <3>4, <3>5
  <2> QED
    BY <2>1, <2>2
<1>4. ASSUME NEW r \in Readers, OnTheWay(r), ~ReadEntry(r) PROVE hit' = hit
  BY <1>4 DEF OnTheWay, LookupIndex, UnmapIndex, MapIndex, LabelIndex, FollowIndexLength,
              CloseIndex, OpenIndex, LookupData, UnmapData, MapData, LabelData,
              ReadDataLength, CloseData, OpenData, CopyRecord
<1>5. ASSUME NEW r \in Readers, r # q, OnTheWay(r)
      PROVE  hit'[q] = hit[q] /\ pc'[q] = pc[q]
  <2>1. pc'[q] = pc[q]
    BY <1>0, <1>5, WayKeeps
  <2>2. CASE ReadEntry(r)
    BY <1>0, <1>5, <2>1, <2>2 DEF ReadEntry
  <2> QED
    BY <1>4, <1>5, <2>1, <2>2
<1>6. ASSUME OnTheWay(q), ~ReadEntry(q) PROVE pc[q] \in OnData
  <2>1. Onward(q)
    BY <1>6, WayKeeps
  <2>2. pc[q] # "entry"
    BY <1>6 DEF OnTheWay, LookupIndex, UnmapIndex, MapIndex, LabelIndex, FollowIndexLength,
                CloseIndex, OpenIndex, LookupData, UnmapData, MapData, LabelData,
                ReadDataLength, CloseData, OpenData, CopyRecord
  <2> QED
    BY <2>1, <2>2 DEF Onward, OnIndex, OnData
<1>7. ASSUME NEW r \in Readers, NEW s \in Nat, CallOf(r, s) PROVE hit' = hit /\ pc[q] \in OnData
  BY <1>0, <1>7 DEF CallOf, Call, OnData
<1>8. ASSUME NEW r \in Readers, ReturnOf(r) PROVE hit'[q] = hit[q] /\ pc[q] \in OnData
  <2>1. r # q
    BY <1>0, <1>8 DEF ReturnOf, OnData
  <2> QED
    BY <1>0, <1>8, <2>1 DEF ReturnOf
<1>9. CASE Session \/ Leaves
  BY <1>2, <1>9, SessionLeaves DEF Leaves, readerVars
<1> QED
  BY <1>2, <1>3, <1>4, <1>5, <1>6, <1>7, <1>8, <1>9, NextCases

\* A reader that is alone labels what it mapped, and where it unmapped, nothing.
LEMMA DataLabelsStep ==
  ASSUME Lengths, Views, Calls, Records, DataLabels, DataView, Next PROVE DataLabels'
<1> USE DEF Goto
<1>0. /\ pc \in [Readers -> Labels]
      /\ dmap \in [section : Nat, from : Nat \cup {NoView}, to : Nat, lo : Nat, hi : Nat]
      /\ Readers = Alone \cup shared
  BY DEF Calls, Views, Alone
<1> SUFFICES ASSUME "data" \notin mixed'
             PROVE  \/ dmap'.from = dmap'.lo /\ dmap'.to = dmap'.hi
                    \/ dmap'.from = NoView /\ dmap'.hi = 0
                    \/ \E r \in Readers : pc'[r] = "labeldata"
  BY DEF DataLabels
<1>1. ASSUME NEW r \in Readers, UnmapData(r)
      PROVE  (dmap'.from = NoView /\ dmap'.hi = 0) \/ dmap' = dmap
  BY <1>0, <1>1 DEF UnmapData
<1>2. ASSUME NEW r \in Readers, MapData(r)
      PROVE  (dmap'.from = NoView /\ dmap'.hi = 0) \/ pc'[r] = "labeldata"
  <2>1. r \in Alone /\ "data" \notin mixed
    BY <1>0, <1>2 DEF MapData, Moves
  <2>2. dmap.hi = 0
    BY <1>2, <2>1 DEF MapData, DataView
  <2> QED
    BY <1>0, <1>2, <2>2 DEF MapData
<1>3. ASSUME NEW r \in Readers, LabelData(r)
      PROVE  dmap'.from = dmap'.lo /\ dmap'.to = dmap'.hi
  <2>1. r \in Alone /\ pc[r] = "labeldata"
    BY <1>0, <1>3 DEF LabelData, Settles
  <2>2. dmap.from = ViewStart(hit[r]) /\ dmap.to = len[r]
    BY <2>1 DEF DataView
  <2> QED
    BY <1>0, <1>3, <2>2 DEF LabelData
<1>4. ASSUME NEW r \in Readers, CloseData(r) PROVE dmap'.from = NoView /\ dmap'.hi = 0
  BY <1>4 DEF CloseData
<1>5. ASSUME NEW r \in Readers, OpenData(r) PROVE pc'[r] = "labeldata" \/ dmap' = dmap
  BY <1>0, <1>5 DEF OpenData
<1>6. CASE dmap' = dmap /\ ~ \E r \in Readers : LabelData(r)
  <2>1. "data" \notin mixed
    BY <1>6, MixedStep DEF Alone
  <2> QED
    BY <1>6, <2>1, LabelWaits DEF DataLabels
<1>7. \/ dmap' = dmap
      \/ \E r \in Readers : \/ UnmapData(r) \/ MapData(r) \/ LabelData(r)
                            \/ CloseData(r) \/ OpenData(r)
  <2>1. CASE \/ Session
             \/ \E r \in Readers : \E s \in Nat : CallOf(r, s)
             \/ \E r \in Readers : ReturnOf(r)
             \/ Leaves
    BY <2>1, SessionLeaves DEF CallOf, ReturnOf, Leaves, dataVars
  <2>2. ASSUME NEW r \in Readers, OnTheWay(r)
        PROVE  dmap' = dmap \/ UnmapData(r) \/ MapData(r) \/ LabelData(r)
               \/ CloseData(r) \/ OpenData(r)
    BY <2>2 DEF OnTheWay, LookupIndex, ReadEntry, UnmapIndex, MapIndex, LabelIndex,
                FollowIndexLength, CloseIndex, OpenIndex, LookupData, ReadDataLength,
                CopyRecord, dataVars
  <2> QED
    BY <2>1, <2>2, NextCases
<1> QED
  BY <1>1, <1>2, <1>3, <1>4, <1>5, <1>6, <1>7

\* What a reader that is alone knows of its record stays true: the entry it reads
\* is that of its sequence number, and it maps or finds a view that holds the
\* record, which lies within the file as far as its length is known.
LEMMA DataViewStep ==
  ASSUME Lengths, Views, Calls, Records, OthersIdle, InLog, Complete, Hits, IndexView,
         EntryView, DataLabels, DataView, Next
  PROVE  DataView'
<1> USE DEF Goto
<1>0. /\ pc \in [Readers -> Labels] /\ want \in [Readers -> Nat] /\ hit \in [Readers -> Extents]
      /\ len \in [Readers -> Nat]
      /\ dfile \in Nat /\ dataLength \in Nat /\ Count \in Nat
      /\ imap \in [section : Nat, view : Nat \cup {NoView}, first : Nat, last : Nat]
      /\ dmap \in [section : Nat, from : Nat \cup {NoView}, to : Nat, lo : Nat, hi : Nat]
  BY DEF Calls, Lengths, Views, Records, Count
<1> SUFFICES ASSUME NEW r \in Readers, r \in Alone'
             PROVE  /\ "index" \notin mixed' /\ pc'[r] \in OnData =>
                         hit'[r] = log'[want'[r] + 1]
                    /\ pc'[r] = "mapdata" => EndOf(hit'[r]) <= dfile'
                    /\ "data" \notin mixed' /\ pc'[r] \in {"mapdata", "datalength"} =>
                         dmap'.hi = 0
                    /\ pc'[r] = "labeldata" =>
                         /\ dmap'.from = ViewStart(hit'[r]) /\ dmap'.to = len'[r]
                         /\ EndOf(hit'[r]) <= len'[r]
                    /\ "data" \notin mixed' /\ pc'[r] = "copy" => InView(hit[r])'
  BY DEF DataView, Alone, EndOf, ViewStart
<1>1. CASE pc'[r] = "idle"
  BY <1>1 DEF OnData
<1>2. CASE Unseen(r)
  <2>1. UNCHANGED <<dfile, dmap, pc, want, hit, len, mixed>> /\ r \in Alone
    BY <1>2 DEF Unseen
  <2>2. pc[r] \in OnData => log'[want[r] + 1] = log[want[r] + 1]
    BY <1>0, <1>2 DEF Unseen, InLog
  <2> QED
    BY <2>1, <2>2 DEF DataView, InView, EndOf
<1>3. CASE Begins(r)
  BY <1>3 DEF Begins, OnData
<1>4. CASE r \in Alone /\ OnTheWay(r)
  <2>0. UNCHANGED <<report, log, dataLength, want>> /\ r \notin shared
    BY <1>4, WayKeeps DEF logVars, Alone
  <2>1. CASE pc[r] \in OnData
    <3>0. /\ "index" \notin mixed => hit[r] = log[want[r] + 1]
          /\ pc[r] = "mapdata" => EndOf(hit[r]) <= dfile
          /\ "data" \notin mixed /\ pc[r] \in {"mapdata", "datalength"} => dmap.hi = 0
          /\ pc[r] = "labeldata" =>
               dmap.from = ViewStart(hit[r]) /\ dmap.to = len[r] /\ EndOf(hit[r]) <= len[r]
      BY <1>4, <2>1 DEF DataView
    <3>1. hit[r] \in [start : Nat, size : RecordSizes] /\ EndOf(hit[r]) <= dataLength
      BY <2>1 DEF Hits
    <3>2. /\ ViewStart(hit[r]) \in Nat /\ ViewEnd(hit[r]) \in Nat /\ EndOf(hit[r]) \in Nat
          /\ ViewStart(hit[r]) <= hit[r].start /\ EndOf(hit[r]) <= ViewEnd(hit[r])
          /\ hit[r].start \in Nat /\ ViewEnd(hit[r]) # 0
      BY <3>1, ViewHolds, Sizes DEF ViewEnd
    <3>3. ~LookupIndex(r) /\ ~ReadEntry(r) /\ ~UnmapIndex(r) /\ ~MapIndex(r) /\ ~LabelIndex(r)
      BY <2>1 DEF LookupIndex, ReadEntry, UnmapIndex, MapIndex, LabelIndex, OnData
    <3>4. ~FollowIndexLength(r) /\ ~CloseIndex(r) /\ ~OpenIndex(r)
      BY <2>1 DEF FollowIndexLength, CloseIndex, OpenIndex, OnData
    <3>5. hit' = hit
      BY <1>4, <3>3, <3>4 DEF OnTheWay, LookupData, UnmapData, MapData, LabelData,
                              ReadDataLength, CloseData, OpenData, CopyRecord
    <3>6. "index" \notin mixed' => hit'[r] = log'[want'[r] + 1]
      <4>1. "index" \notin mixed' => "index" \notin mixed
        <5>1. ASSUME NEW q \in Alone, LabelIndex(q) PROVE FALSE
          BY <1>4, <2>1, <3>3, <5>1 DEF OthersIdle, LabelIndex, Alone, OnData
        <5> QED
          BY <5>1, MixedStep
      <4> QED
        BY <2>0, <3>0, <3>5, <4>1
    <3>7. ASSUME "data" \notin mixed, pc[r] # "labeldata"
          PROVE  \/ dmap.from = dmap.lo /\ dmap.to = dmap.hi
                 \/ dmap.from = NoView /\ dmap.hi = 0
      <4>1. \A q \in Readers \ {r} : pc[q] = "idle"
        BY <1>4, <2>1 DEF OthersIdle, OnData
      <4> QED
        BY <3>7, <4>1 DEF DataLabels
    <3>8. CASE LookupData(r)
      <4>1. /\ dmap' = dmap /\ mixed' = mixed /\ pc'[r] \in {"copy", "unmapdata"}
            /\ pc[r] = "data"
            /\ pc'[r] = "copy" => /\ dmap.lo <= ViewStart(hit[r])
                                  /\ ViewEnd(hit[r]) <= dmap.hi
        BY <1>0, <3>8 DEF LookupData, dataVars
      <4>2. ASSUME "data" \notin mixed, pc'[r] = "copy"
            PROVE  dmap.from = dmap.lo /\ dmap.to = dmap.hi
        BY <1>0, <3>2, <3>7, <4>1, <4>2
      <4>3. "data" \notin mixed' /\ pc'[r] = "copy" =>
              dmap'.from = dmap'.lo /\ dmap'.lo <= hit[r].start /\ EndOf(hit[r]) <= dmap'.to
        BY <1>0, <3>2, <4>1, <4>2
      <4> QED
        BY <3>5, <3>6, <4>1, <4>3 DEF InView, EndOf
    <3>9. CASE UnmapData(r)
      <4>1. /\ dfile' = dfile /\ mixed' = mixed /\ pc[r] = "unmapdata"
            /\ pc'[r] \in {"mapdata", "datalength"}
            /\ pc'[r] = "mapdata" => ViewEnd(hit[r]) <= dfile \/ report
        BY <1>0, <2>0, <3>9 DEF UnmapData, Moves
      <4>2. pc'[r] = "mapdata" => EndOf(hit[r]) <= dfile
        BY <1>0, <3>1, <3>2, <4>1 DEF Complete
      <4>3. "data" \notin mixed => dmap'.hi = 0
        BY <1>0, <3>7, <3>9, <4>1 DEF UnmapData, NoView
      <4> QED
        BY <3>5, <3>6, <4>1, <4>2, <4>3
    <3>10. CASE MapData(r)
      <4>1. \/ pc'[r] = "failed"
            \/ /\ pc'[r] = "labeldata" /\ dmap'.from = ViewStart(hit[r])
               /\ dmap'.to = Min2(ViewEnd(hit[r]), dfile)
               /\ len'[r] = Min2(ViewEnd(hit[r]), dfile)
        BY <1>0, <3>10 DEF MapData
      <4>2. EndOf(hit[r]) <= dfile
        BY <3>0, <3>10 DEF MapData
      <4>3. EndOf(hit[r]) <= Min2(ViewEnd(hit[r]), dfile)
        BY <3>2, <4>2 DEF Min2
      <4> QED
        BY <3>5, <3>6, <4>1, <4>3
    <3>11. CASE LabelData(r)
      <4>1. /\ pc[r] = "labeldata" /\ pc'[r] = "copy" /\ dmap'.from = dmap.from
            /\ dmap'.to = dmap.to /\ dmap'.lo = ViewStart(hit[r])
        BY <1>0, <3>11 DEF LabelData
      <4> QED
        BY <3>0, <3>2, <3>5, <3>6, <4>1 DEF InView, EndOf
    <3>12. CASE ReadDataLength(r)
      <4>1. /\ dfile' = dfile /\ dmap' = dmap /\ mixed' = mixed /\ pc[r] = "datalength"
            /\ pc'[r] \in {"mapdata", "reopendata"}
            /\ pc'[r] = "mapdata" => dataLength = dfile
        BY <1>0, <3>12 DEF ReadDataLength, dataVars
      <4> QED
        BY <3>0, <3>1, <3>5, <3>6, <4>1
    <3>13. CASE CloseData(r)
      <4>1. pc'[r] = "opendata"
        BY <1>0, <3>13 DEF CloseData
      <4> QED
        BY <3>5, <3>6, <4>1
    <3>14. CASE OpenData(r)
      <4>1. \/ pc'[r] = "failed"
            \/ /\ pc'[r] = "labeldata" /\ dmap'.from = ViewStart(hit[r])
               /\ dmap'.to = ViewEnd(hit[r]) /\ len'[r] = ViewEnd(hit[r])
        BY <1>0, <3>14 DEF OpenData
      <4> QED
        BY <3>2, <3>5, <3>6, <4>1
    <3>15. CASE CopyRecord(r)
      <4>1. pc'[r] \in {"copied", "crashed"}
        BY <1>0, <3>15 DEF CopyRecord
      <4> QED
        BY <3>5, <3>6, <4>1
    <3> QED
      BY <1>4, <3>3, <3>4, <3>8, <3>9, <3>10, <3>11, <3>12, <3>13, <3>14, <3>15 DEF OnTheWay
  <2>2. CASE pc[r] = "entry"
    <3>1. ReadEntry(r)
      BY <1>4, <2>2 DEF OnTheWay, LookupIndex, UnmapIndex, MapIndex, LabelIndex,
           FollowIndexLength, CloseIndex, OpenIndex, LookupData, UnmapData, MapData, LabelData,
           ReadDataLength, CloseData, OpenData, CopyRecord
    <3>2. /\ mixed' = mixed
          /\ \/ pc'[r] \in {"crashed", "failed"}
             \/ /\ pc'[r] = "data" /\ imap.view # NoView
                /\ imap.view + (want[r] - imap.first) < Count
                /\ hit'[r] = log[imap.view + (want[r] - imap.first) + 1]
             \/ /\ pc'[r] = "data" /\ imap.view # NoView
                /\ imap.view + (want[r] - imap.first) >= Count
      BY <1>0, <3>1 DEF ReadEntry
    <3>3. \A q \in Readers : pc[q] # "labelindex"
      BY <1>4, <2>2 DEF OthersIdle
    <3>4. "index" \notin mixed => imap.view \in {NoView, imap.first}
      BY <3>3 DEF IndexView
    <3>5. want[r] < Count
      BY <2>2 DEF InLog
    <3>6. "index" \notin mixed /\ imap.view # NoView =>
            imap.view + (want[r] - imap.first) = want[r]
      BY <1>0, <3>4
    <3> QED
      BY <1>0, <2>0, <3>2, <3>5, <3>6 DEF OnData
  <2>3. CASE pc[r] \notin OnData \cup {"entry"}
    <3>1. pc'[r] \notin OnData
      BY <1>4, <2>3, WayKeeps DEF Onward, OnIndex, OnData
    <3> QED
      BY <3>1 DEF OnData
  <2> QED
    BY <2>1, <2>2, <2>3
<1> QED
  BY <1>1, <1>2, <1>3, <1>4, AloneCases
-----------------------------------------------------------------------------
\* The log at the start is in its file: a report ends with the unit that its last
\* record ends in, and the others end before.
LEMMA InitRecords ==
  ASSUME Init
  PROVE  /\ Records /\ dataLength \in Nat /\ Count \in Nat
<1> DEFINE E == [start : Nat, size : RecordSizes]
<1>0. written = {} /\ validLength = 0
  BY DEF Init
<1>1. CASE report
  <2>1. /\ log \in [1 .. MaxRecords -> E]
        /\ \A i \in DOMAIN log :
             EndOf(log[i]) <= RoundUp(EndOf(log[MaxRecords]), DataMapUnit)
    <3>1. log \in ReportLogs
      BY <1>1 DEF Init
    <3>2. [start : 0 .. MaxRecords * DataMapUnit, size : RecordSizes] \subseteq E
      BY UnitsAssumption
    <3> HIDE DEF E
    <3> QED
      BY <3>1, <3>2 DEF ReportLogs
  <2>2. log \in Seq(E) /\ Len(log) = MaxRecords /\ MaxRecords \in Nat \ {0}
    <3>1. ASSUME NEW S, NEW L \in Nat, NEW f \in [1 .. L -> S]
          PROVE  f \in Seq(S) /\ Len(f) = L
      BY LenProperties
    <3> QED
      BY <2>1, <3>1, UnitsAssumption, Zenon
  <2>3. Count = MaxRecords /\ DOMAIN log = 1 .. Count
    BY <2>1, <2>2 DEF Count
  <2>4. log[Count] \in E
    BY <2>1, <2>2, <2>3
  <2>5. EndOf(log[Count]) \in Nat
    BY <2>4, RecordExtent
  <2>6. dataLength = RoundUp(EndOf(log[Count]), DataMapUnit) /\ dataLength \in Nat
    BY <1>1, <2>5, RoundsUp, Sizes DEF Init
  <2> QED
    BY <1>0, <2>1, <2>2, <2>3, <2>6 DEF Records
<1>2. CASE ~report
  <2>1. log = <<>> /\ dataLength = DataIncrement
    BY <1>2 DEF Init
  <2>2. log \in Seq(E) /\ Count = 0
    BY <2>1, EmptySeq DEF Count
  <2> QED
    BY <1>0, <1>2, <2>1, <2>2, Sizes DEF Records
<1> QED
  BY <1>1, <1>2

\* The index file at the start is a number of views.
LEMMA InitLengths ==
  ASSUME Init PROVE indexLength \in Nat /\ Aligned(indexLength)
<1>1. CASE report
  BY <1>1, InitRecords, RoundsUp, Sizes DEF Init, Aligned
<1>2. CASE ~report
  BY <1>2, IncrementAligned, Sizes DEF Init, Aligned
<1> QED
  BY <1>1, <1>2

\* Nobody reads at the start.
LEMMA InitIInv == Init => IInv
<1> SUFFICES ASSUME Init PROVE IInv
  OBVIOUS
<1>0. /\ indexLength \in Nat /\ Aligned(indexLength) /\ dataLength \in Nat
      /\ Records /\ report \in BOOLEAN
  BY InitLengths, InitRecords, ReadersAssumption DEF Init
<1>1. Lengths
  BY <1>0, Sizes DEF Init, Lengths
<1>2. Views
  BY <1>0, Sizes DEF Init, Views, NoView
<1>3. Calls
  <2>1. NoExtent \in Extents
    BY DEF NoExtent, Extents
  <2>2. stall \in BOOLEAN
    BY <1>0 DEF Init
  <2> QED
    BY <2>1, <2>2 DEF Init, Calls, Labels
<1>4. IndexLengths
  BY <1>0 DEF Init, IndexLengths, Aligned
<1>5. pc = [r \in Readers |-> "idle"] /\ shared = {}
  BY DEF Init
<1>6. OthersIdle /\ InLog /\ Dialog /\ Hits
  BY <1>5, ReadersAssumption
  DEF OthersIdle, Alone, InLog, OnIndex, OnData, Dialog, Readers, Hits
<1>7. Complete
  BY <1>5 DEF Init, Complete
<1>8. IndexView /\ Mapped
  BY <1>0, <1>5 DEF Init, IndexView, Mapped, NoView
<1>9. EntryView /\ DataView /\ DataLabels
  BY <1>5, Sizes DEF Init, EntryView, DataView, DataLabels, Alone, OnIndex, OnData
<1> QED
  BY <1>0, <1>1, <1>2, <1>3, <1>4, <1>6, <1>7, <1>8, <1>9 DEF IInv

\* Every step preserves the invariant.
LEMMA NextIInv == IInv /\ Next => IInv'
<1> SUFFICES ASSUME IInv, Next PROVE IInv'
  OBVIOUS
<1> USE DEF IInv
<1>1. Lengths' /\ Views' /\ Calls' /\ Records'
  BY LengthsStep, ViewsStep, CallsStep, RecordsStep
<1>2. IndexLengths' /\ OthersIdle' /\ InLog' /\ Complete' /\ Dialog' /\ Hits'
  BY IndexLengthsStep, OthersIdleStep, InLogStep, CompleteStep, DialogStep, HitsStep
<1>3. IndexView' /\ Mapped'
  BY IndexViewStep, MappedStep
<1>4. EntryView' /\ DataLabels' /\ DataView'
  BY EntryViewStep, DataLabelsStep, DataViewStep
<1> QED
  BY <1>1, <1>2, <1>3, <1>4

\* So does a step that changes nothing.
LEMMA StutterIInv == IInv /\ UNCHANGED vars => IInv'
<1> SUFFICES ASSUME IInv, UNCHANGED vars PROVE IInv'
  OBVIOUS
<1> USE DEF IInv, vars, logVars, indexVars, dataVars, readerVars, dialogVars
<1>1. Lengths' /\ Views' /\ Calls'
  BY DEF Lengths, Views, Calls
<1>2. Records' /\ IndexLengths' /\ OthersIdle'
  BY DEF Records, Count, EndOf, IndexLengths, Aligned, OthersIdle, Alone
<1>3. InLog' /\ Complete' /\ Dialog' /\ Hits'
  BY DEF InLog, Count, Complete, Dialog, Hits, EndOf
<1>4. IndexView' /\ Mapped'
  BY DEF IndexView, ViewOf, Mapped, Unmapper, Count
<1>5. EntryView' /\ DataLabels' /\ DataView'
  BY DEF EntryView, Alone, SequenceMapped, ViewOf, DataLabels, DataView, EndOf, InView, ViewStart
<1> QED
  BY <1>1, <1>2, <1>3, <1>4, <1>5

\* The invariant holds in every state that readers can reach.
LEMMA Inductive == Spec => []IInv
<1>1. IInv /\ [Next]_vars => IInv'
  BY NextIInv, StutterIInv
<1> QED
  BY <1>1, InitIInv, PTL DEF Spec
-----------------------------------------------------------------------------
\* Every variable keeps its range, through every interleaving of the two readers:
\* no view is labelled with sequences before the first, although both set labels.
THEOREM ReaderTypes == Spec => []TypeOK
<1>1. IInv => TypeOK
  <2> SUFFICES ASSUME IInv PROVE TypeOK
    OBVIOUS
  <2>1. log \in Seq(Extents)
    <3>1. [start : Nat, size : RecordSizes] \subseteq Extents
      BY RecordExtent
    <3> QED
      BY <3>1, SeqMonotonic DEF IInv, Records
  <2>2. written \subseteq Extents /\ validLength \in Nat
    BY RecordExtent DEF IInv, Records
  <2> QED
    BY <2>1, <2>2 DEF IInv, Lengths, Views, Calls, TypeOK
<1> QED
  BY <1>1, Inductive, PTL

\* MspCopyRecord, as long as its call overlaps no other, follows the entry of the
\* record it was asked for and copies from a view that holds all of it, also after
\* calls that failed left views unmapped; but for the views that overlapping calls
\* moved and that no reader alone has mapped anew.
THEOREM CopiesTheRecord == Spec => []CopiesAskedRecord
<1>1. IInv => CopiesAskedRecord
  <2> SUFFICES ASSUME IInv PROVE CopiesAskedRecord
    OBVIOUS
  <2>1. FoundIsAsked
    BY DEF IInv, InLog, DataView, OnData, FoundIsAsked, Alone
  <2>2. RecordMapped
    BY DEF IInv, DataView, RecordMapped
  <2>3. EntryMapped
    BY DEF IInv, OthersIdle, IndexView, EntryView, EntryMapped, Alone
  <2> QED
    BY <2>1, <2>2, <2>3 DEF CopiesAskedRecord
<1> QED
  BY <1>1, Inductive, PTL

\* The progress dialog keeps the window of a report from asking for records while
\* CounterScanWorkItem copies them, unless the user cancels it.
THEOREM OneReaderOfReports == Spec => []OneReader
<1>1. IInv => OneReader
  BY DEF IInv, Dialog, OneReader, Lengths, Records, Count
<1> QED
  BY <1>1, Inductive, PTL
=============================================================================
