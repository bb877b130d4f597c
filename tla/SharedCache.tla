------------------------------ MODULE SharedCache ------------------------------
(***************************************************************************)
(* The shared cache of a tracing session: one data file, one index file and *)
(* one page of global data (BTR_SHARED_DATA) mapped into every traced       *)
(* process.  Threads of traced processes append call records to it without  *)
(* a common lock (btr/queue.c, btr/cache.c); the control program's index    *)
(* thread follows them and publishes how many records may be read           *)
(* (dprobe/mspdtl.c, MspIndexProcedure).                                    *)
(*                                                                          *)
(* Lengths of the data file are counted in abstract units, lengths of the   *)
(* index file in entries.  Each atomic access to the global data page is a  *)
(* step of its own; a lock that is taken only to read one length is one     *)
(* step, since nothing else changes that length while it is held.           *)
(***************************************************************************)
EXTENDS Integers, FiniteSets

CONSTANTS
  Writers,          \* threads of traced processes that log calls
  Mortal,           \* the writers whose process may be terminated at any step
  IndexThread,      \* the thread that runs MspIndexProcedure
  NoThread,         \* the value of SpinLock when nobody holds it
  RecordSizes,      \* values of Record->TotalLength, in data units
  DataIncrement,    \* BTR_SHARED_DATA_FILE_INCREMENT, in data units
  DataMapUnit,      \* BTR_SHARED_DATA_MAP_INCREMENT, in data units
  IndexIncrement,   \* BTR_INDEX_FILE_INCREMENT, in entries
  IndexMapUnit,     \* BTR_INDEX_MAP_INCREMENT, in entries
  MaxIndexEntries,  \* BTR_MAXIMUM_INDEX_FILE_SIZE, in entries
  SequenceModulus,  \* Sequence is a ULONG: 2^32
  EntryModulus,     \* distinct values of Sequence * sizeof(BTR_FILE_INDEX):
                    \* 2^29 in a 32-bit build, 2^32 in a 64-bit build
  OffsetModulus,    \* BTR_FILE_INDEX.Offset has 36 bits
  GarbageLengths,   \* what the uninitialised ExtendedLength may hold
  GarbageStatusOk,  \* what "uninitialised Status == MSP_STATUS_OK" may be
  MaxRecords,       \* bound: sequence numbers handed out in a behaviour
  MaxFaults         \* bound: operating-system calls that fail

ASSUME ThreadsAssumption ==
  /\ Mortal \subseteq Writers
  /\ IndexThread \notin Writers
  /\ NoThread \notin Writers \cup {IndexThread}

ASSUME SizesAssumption ==
  /\ RecordSizes \subseteq Nat \ {0}
  /\ DataIncrement \in Nat \ {0}
  /\ DataMapUnit \in Nat \ {0}
  /\ IndexMapUnit \in Nat \ {0, 1}
  /\ IndexIncrement \in Nat \ {0}
  /\ IndexIncrement % IndexMapUnit = 0
  /\ MaxIndexEntries \in Nat
  /\ SequenceModulus \in Nat \ {0}
  /\ EntryModulus \in Nat \ {0}
  /\ OffsetModulus \in Nat \ {0}
  /\ GarbageLengths \subseteq Nat
  /\ GarbageStatusOk \subseteq BOOLEAN
  /\ MaxRecords \in Nat
  /\ MaxFaults \in Nat

VARIABLES
  \* the global data page
  Sequence, SequenceFull, DataValidLength, DataFileLength, IndexFileLength,
  SpinLock,
  \* the two files: their end as the kernel knows it, and their contents
  dataEof, indexEof, data, index,
  \* per writer: control point, the record in hand, the length held in a
  \* local, and the thread's two BTR_MAPPING_OBJECTs
  pc, rec, len, dmap, imap,
  \* the index thread: control point, local Sequence, its mapping and
  \* FileObject, the length it read, and what it publishes
  xpc, cursor, xmap, xlen, NumberOfRecords,
  stop,             \* MspStopEvent
  issued, faults    \* counters of the two bounds

lengthVars  == <<DataValidLength, DataFileLength, IndexFileLength>>
fileVars    == <<dataEof, indexEof, data, index>>
mapVars     == <<dmap, imap>>
writerVars  == <<pc, rec, len, mapVars>>
indexerVars == <<xpc, cursor, xmap, xlen, NumberOfRecords, stop>>
boundVars   == <<issued, faults>>
vars == <<Sequence, SequenceFull, lengthVars, SpinLock, fileVars,
          writerVars, indexerVars, boundVars>>

--------------------------------------------------------------------------------
NoRecord == [seq |-> 0, size |-> 0, start |-> 0]
NoEntry  == [Committed |-> FALSE, Length |-> 0, Offset |-> 0]
Slots    == 0 .. EntryModulus - 1

\* The entry number a record's index goes to.
Location(w) == rec[w].seq % EntryModulus
End(w)      == rec[w].start + rec[w].size

RoundDown(x, unit) == (x \div unit) * unit
RoundUp(x, unit)   == RoundDown(x + unit - 1, unit)
Min2(a, b)         == IF a <= b THEN a ELSE b

Goto(w, label) == pc' = [pc EXCEPT ![w] = label]

\* A record that could not be logged: the caller sets RequireExemption, and the
\* thread's further calls are exempt, but for the calls it is still inside of.
Fail(w) == Goto(w, "failed")

\* The handle of a section is closed: nothing can be mapped through it.
Closed == 0

\* An operating-system call fails, within the bound.
Fault == faults < MaxFaults /\ faults' = faults + 1

Acquire(t) == SpinLock = NoThread /\ SpinLock' = t
Release(t) == SpinLock = t /\ SpinLock' = NoThread

Init ==
  /\ Sequence = SequenceModulus - 1          \* (ULONG)-1
  /\ SequenceFull = FALSE
  /\ DataValidLength = 0
  /\ DataFileLength = DataIncrement
  /\ IndexFileLength = IndexIncrement
  /\ SpinLock = NoThread
  /\ dataEof = DataIncrement
  /\ indexEof = IndexIncrement
  /\ data = {}
  /\ index = [s \in Slots |-> NoEntry]
  /\ pc = [w \in Writers |-> "new"]
  /\ rec = [w \in Writers |-> NoRecord]
  /\ len = [w \in Writers |-> 0]
  /\ dmap = [w \in Writers |-> [lo |-> 0, hi |-> 0, length |-> 0, section |-> Closed]]
  /\ imap = [w \in Writers |-> [view |-> -1, length |-> 0, section |-> Closed]]
  /\ xpc = "wait"
  /\ cursor = 0
  /\ xmap = [first |-> 0, length |-> IndexIncrement, section |-> IndexIncrement]
  /\ xlen = 0
  /\ NumberOfRecords = 0
  /\ stop = FALSE
  /\ issued = 0
  /\ faults = 0

--------------------------------------------------------------------------------
(***************************************************************************)
(* A thread's first probed call creates its two sections; each section is   *)
(* as long as its file is at that moment, and the length recorded beside it *)
(* is read from the global page afterwards.  A thread that cannot have both *)
(* logs nothing at all.                                                     *)
(***************************************************************************)
CreateDataMapping(w) ==
  /\ pc[w] = "new"
  /\ \/ /\ dmap' = [dmap EXCEPT ![w].section = dataEof]
        /\ Goto(w, "newdata")
        /\ UNCHANGED faults
     \/ Fault /\ Goto(w, "exempt") /\ UNCHANGED dmap
  /\ UNCHANGED <<Sequence, SequenceFull, lengthVars, SpinLock, fileVars, rec, len,
                 imap, indexerVars, issued>>

ReadDataMappingLength(w) ==
  /\ pc[w] = "newdata"
  /\ dmap' = [dmap EXCEPT ![w].length = DataFileLength]
  /\ Goto(w, "newindex")
  /\ UNCHANGED <<Sequence, SequenceFull, lengthVars, SpinLock, fileVars, rec, len,
                 imap, indexerVars, boundVars>>

CreateIndexMapping(w) ==
  /\ pc[w] = "newindex"
  /\ \/ /\ imap' = [imap EXCEPT ![w].section = indexEof]
        /\ Goto(w, "newindexlen")
        /\ UNCHANGED faults
     \/ Fault /\ Goto(w, "exempt") /\ UNCHANGED imap
  /\ UNCHANGED <<Sequence, SequenceFull, lengthVars, SpinLock, fileVars, rec, len,
                 dmap, indexerVars, issued>>

ReadIndexMappingLength(w) ==
  /\ pc[w] = "newindexlen"
  /\ imap' = [imap EXCEPT ![w].length = IndexFileLength]
  /\ Goto(w, "idle")
  /\ UNCHANGED <<Sequence, SequenceFull, lengthVars, SpinLock, fileVars, rec, len,
                 dmap, indexerVars, boundVars>>

\* A thread whose last record failed still logs the calls it is inside of: the
\* flag is not looked at again, and the end of a call that fails in nothing
\* itself clears it.
MayLog(w) == pc[w] \in {"idle", "failed"}

\* Faulty variant: the increment is lost, as with a plain ++ of two threads.
AcquireSequenceLost(w, size) ==
  /\ MayLog(w)
  /\ issued < MaxRecords
  /\ issued' = issued + 1
  /\ rec' = [rec EXCEPT ![w] = [seq |-> (Sequence + 1) % SequenceModulus,
                               size |-> size, start |-> 0]]
  /\ Goto(w, "filelen")
  /\ UNCHANGED <<Sequence, SequenceFull, lengthVars, SpinLock, fileVars, len, mapVars,
                 indexerVars, faults>>

(***************************************************************************)
(* BtrQueueSharedCacheRecord: the record's sequence number.                 *)
(***************************************************************************)
AcquireSequence(w, size) ==
  /\ MayLog(w)
  /\ issued < MaxRecords
  /\ issued' = issued + 1
  /\ Sequence' = (Sequence + 1) % SequenceModulus
  /\ rec' = [rec EXCEPT ![w] = [seq |-> Sequence', size |-> size, start |-> 0]]
  /\ Goto(w, "filelen")
  /\ UNCHANGED <<SequenceFull, lengthVars, SpinLock, fileVars, len, mapVars,
                 indexerVars, faults>>

(***************************************************************************)
(* BtrAcquireWritePosition: read the file length, then the valid length,    *)
(* then claim [start, end) with one compare-exchange; a full file is        *)
(* extended under the spin lock and the routine starts over.                *)
(***************************************************************************)
ReadFileLength(w) ==
  /\ pc[w] = "filelen"
  /\ len' = [len EXCEPT ![w] = DataFileLength]
  /\ Goto(w, "validlen")
  /\ UNCHANGED <<Sequence, SequenceFull, lengthVars, SpinLock, fileVars, rec,
                 mapVars, indexerVars, boundVars>>

ReadValidLength(w) ==
  /\ pc[w] = "validlen"
  /\ rec' = [rec EXCEPT ![w].start = DataValidLength]
  /\ Goto(w, IF DataValidLength + rec[w].size <= len[w] THEN "claim" ELSE "datalock")
  /\ UNCHANGED <<Sequence, SequenceFull, lengthVars, SpinLock, fileVars, len,
                 mapVars, indexerVars, boundVars>>

\* Faulty variant: a store in place of the compare-exchange.
ClaimPositionByStore(w) ==
  /\ pc[w] = "claim"
  /\ DataValidLength' = End(w)
  /\ Goto(w, "write")
  /\ UNCHANGED <<Sequence, SequenceFull, DataFileLength, IndexFileLength, SpinLock,
                 fileVars, rec, len, mapVars, indexerVars, boundVars>>

ClaimPosition(w) ==
  /\ pc[w] = "claim"
  /\ \/ /\ DataValidLength = rec[w].start
        /\ DataValidLength' = End(w)
        /\ Goto(w, "write")
     \/ /\ DataValidLength # rec[w].start
        /\ Goto(w, "filelen")
        /\ UNCHANGED DataValidLength
  /\ UNCHANGED <<Sequence, SequenceFull, DataFileLength, IndexFileLength, SpinLock,
                 fileVars, rec, len, mapVars, indexerVars, boundVars>>

LockDataLength(w) ==
  /\ pc[w] = "datalock"
  /\ Acquire(w)
  /\ Goto(w, "dataextend")
  /\ UNCHANGED <<Sequence, SequenceFull, lengthVars, fileVars, rec, len, mapVars,
                 indexerVars, boundVars>>

\* Faulty variant: the file length is not looked at again under the lock.
ExtendDataFileBlindly(w) ==
  /\ pc[w] = "dataextend"
  /\ \/ /\ dataEof' = len[w] + DataIncrement
        /\ Goto(w, "datapublish")
        /\ UNCHANGED faults
     \/ /\ Fault
        /\ Goto(w, "dataunlockfail")
        /\ UNCHANGED dataEof
  /\ UNCHANGED <<Sequence, SequenceFull, lengthVars, SpinLock, indexEof, data, index,
                 rec, len, mapVars, indexerVars, issued>>

\* Under the lock: nothing if the file has grown meanwhile, else SetEndOfFile.
ExtendDataFile(w) ==
  /\ pc[w] = "dataextend"
  /\ \/ /\ DataFileLength > len[w]
        /\ Goto(w, "dataunlock")
        /\ UNCHANGED <<dataEof, faults>>
     \/ /\ DataFileLength <= len[w]
        /\ dataEof' = len[w] + DataIncrement
        /\ Goto(w, "datapublish")
        /\ UNCHANGED faults
     \/ /\ DataFileLength <= len[w]
        /\ Fault
        /\ Goto(w, "dataunlockfail")
        /\ UNCHANGED dataEof
  /\ UNCHANGED <<Sequence, SequenceFull, lengthVars, SpinLock, indexEof, data, index,
                 rec, len, mapVars, indexerVars, issued>>

PublishDataLength(w) ==
  /\ pc[w] = "datapublish"
  /\ DataFileLength' = len[w] + DataIncrement
  /\ Goto(w, "dataunlock")
  /\ UNCHANGED <<Sequence, SequenceFull, DataValidLength, IndexFileLength, SpinLock,
                 fileVars, rec, len, mapVars, indexerVars, boundVars>>

\* Faulty variant: the routine starts over without releasing the lock.
UnlockDataLengthForgotten(w) ==
  /\ SpinLock = w
  /\ \/ pc[w] = "dataunlock"     /\ Goto(w, "filelen")
     \/ pc[w] = "dataunlockfail" /\ Fail(w)
  /\ UNCHANGED <<Sequence, SequenceFull, lengthVars, SpinLock, fileVars, rec, len,
                 mapVars, indexerVars, boundVars>>

UnlockDataLength(w) ==
  /\ Release(w)
  /\ \/ pc[w] = "dataunlock"     /\ Goto(w, "filelen")
     \/ pc[w] = "dataunlockfail" /\ Fail(w)
  /\ UNCHANGED <<Sequence, SequenceFull, lengthVars, fileVars, rec, len, mapVars,
                 indexerVars, boundVars>>

(***************************************************************************)
(* BtrWriteSharedCacheRecord: copy the record through the thread's view,    *)
(* mapping another view or making a longer section first when needed.       *)
(***************************************************************************)
DataMapped(w) == dmap[w].lo <= rec[w].start /\ End(w) <= dmap[w].hi
InDataLength(w) == End(w) <= dmap[w].length

CopyTo(w) == data' = data \cup {rec[w]}

\* The copy faults (BTR_E_EXCEPTION), or the record is in the file.
CopyRecord(w) ==
  /\ pc[w] = "write"
  /\ DataMapped(w)
  /\ \/ CopyTo(w) /\ Goto(w, "index") /\ UNCHANGED faults
     \/ Fault /\ Fail(w) /\ UNCHANGED data
  /\ UNCHANGED <<Sequence, SequenceFull, lengthVars, SpinLock, dataEof, indexEof, index,
                 rec, len, mapVars, indexerVars, issued>>

\* MapViewOfFile refuses a range that ends beyond the section.
MapDataView(w) ==
  LET lo == RoundDown(rec[w].start, DataMapUnit)
      hi == Min2(RoundUp(End(w), DataMapUnit), dmap[w].length)
      unmapped == [dmap[w] EXCEPT !.lo = 0, !.hi = 0]
  IN
  /\ pc[w] = "write"
  /\ ~DataMapped(w)
  /\ InDataLength(w)
  /\ \/ /\ hi <= dmap[w].section
        /\ dmap' = [dmap EXCEPT ![w] = [@ EXCEPT !.lo = lo, !.hi = hi]]
        /\ CopyTo(w)
        /\ Goto(w, "index")
        /\ UNCHANGED faults
     \/ /\ hi > dmap[w].section
        /\ dmap' = [dmap EXCEPT ![w] = unmapped]
        /\ Fail(w)
        /\ UNCHANGED <<data, faults>>
     \/ /\ Fault
        /\ dmap' = [dmap EXCEPT ![w] = unmapped]
        /\ Fail(w)
        /\ UNCHANGED data
  /\ UNCHANGED <<Sequence, SequenceFull, lengthVars, SpinLock, dataEof, indexEof, index,
                 rec, len, imap, indexerVars, issued>>

RecreateDataMapping(w) ==
  /\ pc[w] = "write"
  /\ ~DataMapped(w)
  /\ ~InDataLength(w)
  /\ \/ /\ dmap' = [dmap EXCEPT ![w] =
                    [@ EXCEPT !.lo = 0, !.hi = 0, !.section = dataEof]]
        /\ Goto(w, "writelen")
        /\ UNCHANGED faults
     \/ /\ Fault
        /\ dmap' = [dmap EXCEPT ![w] =
                    [@ EXCEPT !.lo = 0, !.hi = 0, !.section = Closed]]
        /\ Fail(w)
  /\ UNCHANGED <<Sequence, SequenceFull, lengthVars, SpinLock, fileVars, rec, len,
                 imap, indexerVars, issued>>

ReadRecreatedLength(w) ==
  /\ pc[w] = "writelen"
  /\ dmap' = [dmap EXCEPT ![w].length = DataFileLength]
  /\ Goto(w, "write")
  /\ UNCHANGED <<Sequence, SequenceFull, lengthVars, SpinLock, fileVars, rec, len,
                 imap, indexerVars, boundVars>>

(***************************************************************************)
(* BtrWriteSharedCacheIndex.                                                *)
(***************************************************************************)
Segment(s) == s \div IndexMapUnit

IndexMapped(w) == imap[w].view = Segment(Location(w))
InIndexLength(w) == Location(w) < imap[w].length

\* Faulty variant: the entry is marked before it names the record.
FillEntryCommitted(w) ==
  /\ pc[w] = "index"
  /\ IndexMapped(w)
  /\ index' = [index EXCEPT ![Location(w)] =
                 [@ EXCEPT !.Length = rec[w].size, !.Committed = TRUE]]
  /\ Goto(w, "commit")
  /\ UNCHANGED <<Sequence, SequenceFull, lengthVars, SpinLock, dataEof, indexEof, data,
                 rec, len, mapVars, indexerVars, boundVars>>

\* Length and Offset are stored first ...
FillEntry(w) ==
  /\ pc[w] = "index"
  /\ IndexMapped(w)
  /\ index' = [index EXCEPT ![Location(w)] =
                 [@ EXCEPT !.Length = rec[w].size,
                           !.Offset = rec[w].start % OffsetModulus]]
  /\ Goto(w, "commit")
  /\ UNCHANGED <<Sequence, SequenceFull, lengthVars, SpinLock, dataEof, indexEof, data,
                 rec, len, mapVars, indexerVars, boundVars>>

\* ... and Committed last.
CommitEntry(w) ==
  /\ pc[w] = "commit"
  /\ index' = [index EXCEPT ![Location(w)].Committed = TRUE]
  /\ rec' = [rec EXCEPT ![w] = NoRecord]
  /\ Goto(w, "idle")
  /\ UNCHANGED <<Sequence, SequenceFull, lengthVars, SpinLock, dataEof, indexEof, data,
                 len, mapVars, indexerVars, boundVars>>

MapIndexView(w) ==
  LET view == Segment(Location(w)) IN
  /\ pc[w] = "index"
  /\ ~IndexMapped(w)
  /\ InIndexLength(w)
  /\ \/ /\ (view + 1) * IndexMapUnit <= imap[w].section
        /\ imap' = [imap EXCEPT ![w].view = view]
        /\ UNCHANGED <<pc, faults>>
     \/ /\ (view + 1) * IndexMapUnit > imap[w].section
        /\ imap' = [imap EXCEPT ![w].view = -1]
        /\ Fail(w)
        /\ UNCHANGED faults
     \/ /\ Fault
        /\ imap' = [imap EXCEPT ![w].view = -1]
        /\ Fail(w)
  /\ UNCHANGED <<Sequence, SequenceFull, lengthVars, SpinLock, fileVars, rec, len,
                 dmap, indexerVars, issued>>

\* Beyond the section: it is closed and the length of the file is read anew.
\* Another section when the index file already reaches the entry, ...
CloseIndexMapping(w) ==
  /\ pc[w] = "index"
  /\ ~IndexMapped(w)
  /\ ~InIndexLength(w)
  /\ SpinLock = NoThread
  /\ imap' = [imap EXCEPT ![w] = [@ EXCEPT !.view = -1, !.section = Closed]]
  /\ len' = [len EXCEPT ![w] = IndexFileLength]
  /\ Goto(w, IF Location(w) < IndexFileLength THEN "indexcreate" ELSE "indexlock")
  /\ UNCHANGED <<Sequence, SequenceFull, lengthVars, SpinLock, fileVars, rec, dmap,
                 indexerVars, boundVars>>

\* ... and otherwise the file grows by one increment under the spin lock.
LockIndexLength(w) ==
  /\ pc[w] = "indexlock"
  /\ Acquire(w)
  /\ Goto(w, "indexextend")
  /\ UNCHANGED <<Sequence, SequenceFull, lengthVars, fileVars, rec, len, mapVars,
                 indexerVars, boundVars>>

\* ExtendedLength is assigned only when this thread extends the file itself.
IndexAlreadyExtended(w) ==
  /\ ~SequenceFull
  /\ Location(w) < IndexFileLength
  /\ \E garbage \in GarbageLengths : len' = [len EXCEPT ![w] = garbage]
  /\ Goto(w, "indexunlock")
  /\ UNCHANGED <<SequenceFull, indexEof, faults>>

IndexSequenceFull(w) ==
  /\ \/ SequenceFull
     \/ /\ Location(w) >= IndexFileLength
        /\ IndexFileLength + IndexIncrement > MaxIndexEntries
  /\ SequenceFull' = TRUE
  /\ Goto(w, "indexunlockfail")
  /\ UNCHANGED <<len, indexEof, faults>>

IndexExtended(w) ==
  /\ ~SequenceFull
  /\ Location(w) >= IndexFileLength
  /\ IndexFileLength + IndexIncrement <= MaxIndexEntries
  /\ \/ /\ indexEof' = IndexFileLength + IndexIncrement
        /\ len' = [len EXCEPT ![w] = IndexFileLength + IndexIncrement]
        /\ Goto(w, "indexpublish")
        /\ UNCHANGED faults
     \/ /\ Fault
        /\ Goto(w, "indexunlockfail")
        /\ UNCHANGED <<indexEof, len>>
  /\ UNCHANGED SequenceFull

ExtendIndexFile(w) ==
  /\ pc[w] = "indexextend"
  /\ IndexAlreadyExtended(w) \/ IndexSequenceFull(w) \/ IndexExtended(w)
  /\ UNCHANGED <<Sequence, lengthVars, SpinLock, dataEof, data, index, rec, mapVars,
                 indexerVars, issued>>

PublishIndexLength(w) ==
  /\ pc[w] = "indexpublish"
  /\ IndexFileLength' = len[w]
  /\ Goto(w, "indexunlock")
  /\ UNCHANGED <<Sequence, SequenceFull, DataValidLength, DataFileLength, SpinLock,
                 fileVars, rec, len, mapVars, indexerVars, boundVars>>

UnlockIndexLength(w) ==
  /\ Release(w)
  /\ \/ pc[w] = "indexunlock"     /\ Goto(w, "indexcreate")
     \/ pc[w] = "indexunlockfail" /\ Fail(w)
  /\ UNCHANGED <<Sequence, SequenceFull, lengthVars, fileVars, rec, len, mapVars,
                 indexerVars, boundVars>>

\* The new section; the length recorded beside it is the thread's local.
RecreateIndexMapping(w) ==
  /\ pc[w] = "indexcreate"
  /\ \/ /\ imap' = [imap EXCEPT ![w] = [@ EXCEPT !.length = len[w], !.section = indexEof]]
        /\ Goto(w, "index")
        /\ UNCHANGED faults
     \/ Fault /\ Fail(w) /\ UNCHANGED imap
  /\ UNCHANGED <<Sequence, SequenceFull, lengthVars, SpinLock, fileVars, rec, len,
                 dmap, indexerVars, issued>>

\* The process of a writer is terminated: the thread stops where it is and a
\* lock it holds stays held.
Die(w) ==
  /\ w \in Mortal
  /\ pc[w] \notin {"dead", "exempt"}
  /\ Goto(w, "dead")
  /\ UNCHANGED <<Sequence, SequenceFull, lengthVars, SpinLock, fileVars, rec, len,
                 mapVars, indexerVars, boundVars>>

--------------------------------------------------------------------------------
(***************************************************************************)
(* MspIndexProcedure and MspUpdateNextSequence.  On every timer tick the    *)
(* index thread counts committed entries from where it stopped, view after  *)
(* view; at the end of the file it extends the file unless a writer has     *)
(* done so already.                                                         *)
(***************************************************************************)
LastMapped == xmap.first + IndexMapUnit - 1
Committed(s) == s \in Slots /\ index[s].Committed

TimerTick ==
  /\ xpc = "wait"
  /\ xpc' = "scan"
  /\ cursor' = NumberOfRecords
  /\ UNCHANGED <<Sequence, SequenceFull, lengthVars, SpinLock, fileVars,
                 writerVars, boundVars, xmap, xlen, NumberOfRecords, stop>>

StopEvent ==
  /\ xpc = "wait"
  /\ stop
  /\ xpc' = "stopped"
  /\ UNCHANGED <<Sequence, SequenceFull, lengthVars, SpinLock, fileVars,
                 writerVars, boundVars, cursor, xmap, xlen, NumberOfRecords, stop>>

\* Faulty variant: entries are counted whether committed or not.
ScanAnyEntry ==
  /\ xpc = "scan"
  /\ cursor <= LastMapped
  /\ cursor \in Slots
  /\ cursor' = cursor + 1
  /\ UNCHANGED <<Sequence, SequenceFull, lengthVars, SpinLock, fileVars, writerVars,
                 boundVars, xpc, xmap, xlen, NumberOfRecords, stop>>

ScanEntry ==
  /\ xpc = "scan"
  /\ cursor <= LastMapped
  /\ Committed(cursor)
  /\ cursor' = cursor + 1
  /\ UNCHANGED <<Sequence, SequenceFull, lengthVars, SpinLock, fileVars,
                 writerVars, boundVars, xpc, xmap, xlen, NumberOfRecords, stop>>

\* Faulty variant: publishes the last sequence number, not the count.
PublishLast ==
  /\ xpc = "scan"
  /\ cursor <= LastMapped
  /\ ~Committed(cursor)
  /\ NumberOfRecords' = cursor - 1
  /\ xpc' = "wait"
  /\ UNCHANGED <<Sequence, SequenceFull, lengthVars, SpinLock, fileVars, writerVars,
                 boundVars, cursor, xmap, xlen, stop>>

PublishCount ==
  /\ xpc = "scan"
  /\ cursor <= LastMapped
  /\ ~Committed(cursor)
  /\ NumberOfRecords' = cursor
  /\ xpc' = "wait"
  /\ UNCHANGED <<Sequence, SequenceFull, lengthVars, SpinLock, fileVars,
                 writerVars, boundVars, cursor, xmap, xlen, stop>>

\* The next view, when the file as this thread knows it has one.
SlideView ==
  /\ xpc = "scan"
  /\ cursor > LastMapped
  /\ cursor < xmap.length - 1
  /\ \/ /\ cursor + IndexMapUnit <= xmap.section
        /\ xmap' = [xmap EXCEPT !.first = cursor]
        /\ UNCHANGED <<xpc, faults>>
     \/ /\ cursor + IndexMapUnit > xmap.section
        /\ xpc' = "stopped"
        /\ UNCHANGED <<xmap, faults>>
     \/ /\ Fault
        /\ xpc' = "stopped"
        /\ UNCHANGED xmap
  /\ UNCHANGED <<Sequence, SequenceFull, lengthVars, SpinLock, fileVars,
                 writerVars, issued, cursor, xlen, NumberOfRecords, stop>>

\* Faulty variant: waits for a writer to extend the file.
ReadIndexLengthPassive ==
  /\ xpc = "scan"
  /\ cursor > LastMapped
  /\ cursor >= xmap.length - 1
  /\ SpinLock = NoThread
  /\ xlen' = IndexFileLength
  /\ xpc' = IF IndexFileLength = xmap.length THEN "wait" ELSE "remap"
  /\ UNCHANGED <<Sequence, SequenceFull, lengthVars, SpinLock, fileVars, writerVars,
                 boundVars, cursor, xmap, NumberOfRecords, stop>>

ReadIndexLength ==
  /\ xpc = "scan"
  /\ cursor > LastMapped
  /\ cursor >= xmap.length - 1
  /\ SpinLock = NoThread
  /\ xlen' = IndexFileLength
  /\ xpc' = IF IndexFileLength = xmap.length THEN "lock" ELSE "remap"
  /\ UNCHANGED <<Sequence, SequenceFull, lengthVars, SpinLock, fileVars,
                 writerVars, boundVars, cursor, xmap, NumberOfRecords, stop>>

LockLength ==
  /\ xpc = "lock"
  /\ Acquire(IndexThread)
  /\ xpc' = "extend"
  /\ UNCHANGED <<Sequence, SequenceFull, lengthVars, fileVars, writerVars,
                 boundVars, cursor, xmap, xlen, NumberOfRecords, stop>>

\* When a writer was faster, Status is returned without having been assigned.
IndexerExtends ==
  /\ xpc = "extend"
  /\ \/ /\ IndexFileLength # xmap.length
        /\ xlen' = IndexFileLength
        /\ \E ok \in GarbageStatusOk : xpc' = IF ok THEN "unlock" ELSE "unlockfail"
        /\ UNCHANGED <<indexEof, faults>>
     \/ /\ IndexFileLength = xmap.length
        /\ xlen' = IndexFileLength + IndexIncrement
        /\ indexEof' = xlen'
        /\ xpc' = "publish"
        /\ UNCHANGED faults
     \/ /\ IndexFileLength = xmap.length
        /\ Fault
        /\ xpc' = "unlockfail"
        /\ UNCHANGED <<xlen, indexEof>>
  /\ UNCHANGED <<Sequence, SequenceFull, lengthVars, SpinLock, dataEof, data,
                 index, writerVars, issued, cursor, xmap, NumberOfRecords, stop>>

IndexerPublishes ==
  /\ xpc = "publish"
  /\ IndexFileLength' = xlen
  /\ xpc' = "unlock"
  /\ UNCHANGED <<Sequence, SequenceFull, DataValidLength, DataFileLength,
                 SpinLock, fileVars, writerVars, boundVars, cursor, xmap, xlen,
                 NumberOfRecords, stop>>

UnlockLength ==
  /\ Release(IndexThread)
  /\ \/ xpc = "unlock"     /\ xpc' = "remap"
     \/ xpc = "unlockfail" /\ xpc' = "stopped"
  /\ UNCHANGED <<Sequence, SequenceFull, lengthVars, fileVars, writerVars,
                 boundVars, cursor, xmap, xlen, NumberOfRecords, stop>>

RemapIndex ==
  /\ xpc = "remap"
  /\ \/ /\ xmap' = [xmap EXCEPT !.length = xlen, !.section = indexEof]
        /\ xpc' = "scan"
        /\ UNCHANGED faults
     \/ Fault /\ xpc' = "stopped" /\ UNCHANGED xmap
  /\ UNCHANGED <<Sequence, SequenceFull, lengthVars, SpinLock, fileVars,
                 writerVars, issued, cursor, xlen, NumberOfRecords, stop>>

\* MspUninitialize signals the stop event and waits for the index thread.
RequestStop ==
  /\ ~stop
  /\ stop' = TRUE
  /\ UNCHANGED <<Sequence, SequenceFull, lengthVars, SpinLock, fileVars,
                 writerVars, boundVars, xpc, cursor, xmap, xlen, NumberOfRecords>>

--------------------------------------------------------------------------------
WriterStep(w) ==
  \/ CreateDataMapping(w)    \/ ReadDataMappingLength(w)
  \/ CreateIndexMapping(w)   \/ ReadIndexMappingLength(w)
  \/ ReadFileLength(w)       \/ ReadValidLength(w)       \/ ClaimPosition(w)
  \/ LockDataLength(w)       \/ ExtendDataFile(w)
  \/ PublishDataLength(w)    \/ UnlockDataLength(w)
  \/ CopyRecord(w)           \/ MapDataView(w)
  \/ RecreateDataMapping(w)  \/ ReadRecreatedLength(w)
  \/ FillEntry(w)            \/ CommitEntry(w)           \/ MapIndexView(w)
  \/ CloseIndexMapping(w)    \/ LockIndexLength(w)       \/ ExtendIndexFile(w)
  \/ PublishIndexLength(w)   \/ UnlockIndexLength(w)     \/ RecreateIndexMapping(w)

IndexerStep ==
  \/ TimerTick       \/ ScanEntry  \/ PublishCount   \/ SlideView
  \/ ReadIndexLength \/ LockLength \/ IndexerExtends \/ IndexerPublishes
  \/ UnlockLength    \/ RemapIndex \/ StopEvent

Next ==
  \/ \E w \in Writers : \E size \in RecordSizes : AcquireSequence(w, size)
  \/ \E w \in Writers : WriterStep(w)
  \/ \E w \in Writers : Die(w)
  \/ IndexerStep
  \/ RequestStop

Spec == Init /\ [][Next]_vars

\* Threads run, and a timer signal never hides the stop event for ever.
Fairness ==
  /\ \A w \in Writers : WF_vars(WriterStep(w))
  /\ WF_vars(IndexerStep)
  /\ SF_vars(StopEvent)

FairSpec == Spec /\ Fairness

--------------------------------------------------------------------------------
Labels == {"new", "newdata", "newindex", "newindexlen", "idle", "filelen",
           "validlen", "claim", "datalock", "dataextend", "datapublish",
           "dataunlock", "dataunlockfail", "write", "writelen", "index", "commit",
           "indexlock", "indexextend", "indexpublish", "indexunlock",
           "indexunlockfail", "indexcreate", "failed", "exempt", "dead"}

IndexLabels == {"wait", "scan", "lock", "extend", "publish", "unlock", "unlockfail",
                "remap", "stopped"}

Entry   == [Committed : BOOLEAN, Length : Nat, Offset : Nat]
Record  == [seq : Nat, size : Nat, start : Nat]
Mapping == [lo : Int, hi : Int, length : Nat, section : Nat]
View    == [view : Int, length : Nat, section : Nat]

TypePage ==
  /\ Sequence \in Nat
  /\ SequenceFull \in BOOLEAN
  /\ DataValidLength \in Nat /\ DataFileLength \in Nat /\ IndexFileLength \in Nat
  /\ SpinLock \in Writers \cup {IndexThread, NoThread}

TypeFiles ==
  /\ dataEof \in Nat /\ indexEof \in Nat
  /\ data \subseteq Record
  /\ index \in [Slots -> Entry]

TypeWriters ==
  /\ pc \in [Writers -> Labels]
  /\ rec \in [Writers -> Record]
  /\ len \in [Writers -> Nat]
  /\ dmap \in [Writers -> Mapping]
  /\ imap \in [Writers -> View]

TypeIndexer ==
  /\ xpc \in IndexLabels
  /\ cursor \in Nat
  /\ xmap \in [first : Nat, length : Nat, section : Nat]
  /\ xlen \in Nat
  /\ NumberOfRecords \in Nat
  /\ stop \in BOOLEAN

TypeBounds ==
  /\ issued \in 0 .. MaxRecords
  /\ faults \in 0 .. MaxFaults

\* The ranges of every variable.  What could go wrong: a length or a count that
\* falls below zero, which the code keeps in unsigned words.
TypeOK == TypePage /\ TypeFiles /\ TypeWriters /\ TypeIndexer /\ TypeBounds

(***************************************************************************)
(* Safety.                                                                  *)
(***************************************************************************)
DataCritical  == {"dataextend", "datapublish", "dataunlock", "dataunlockfail"}
IndexCritical == {"indexextend", "indexpublish", "indexunlock", "indexunlockfail"}
IndexerCritical == {"extend", "publish", "unlock", "unlockfail"}

\* No two threads, of whichever process, are between acquiring and releasing
\* the spin lock of the global page (btr/lock.c, mspdtl.c MspAcquireSpinLock).
ExtensionsExclusive ==
  /\ \A w \in Writers : pc[w] \in DataCritical \cup IndexCritical => SpinLock = w
  /\ xpc \in IndexerCritical => SpinLock = IndexThread

\* A length that lock-free readers take from the global page is never longer
\* than the file: SetEndOfFile comes before the store, and only the holder of
\* the lock extends.
PublishedLengthsBacked ==
  /\ DataValidLength <= DataFileLength
  /\ DataFileLength <= dataEof
  /\ IndexFileLength <= indexEof

\* What each writer may rely on between reading a length and using it.
WriterLengths(w) ==
  /\ pc[w] \in {"validlen", "claim", "datalock", "dataextend", "datapublish"} =>
       len[w] <= DataFileLength
  /\ pc[w] = "claim" => End(w) <= len[w]
  /\ pc[w] = "datapublish" =>
       DataFileLength <= len[w] /\ len[w] + DataIncrement <= dataEof
  /\ pc[w] = "indexpublish" => IndexFileLength <= len[w] /\ len[w] <= indexEof

\* A length read before the lock was taken is still good when it is used under
\* the lock: no extension shortens a file or publishes a smaller length, and a
\* claim never ends beyond the published length.  It is also the strengthening
\* that makes PublishedLengthsBacked inductive.
LengthsInFlight ==
  /\ PublishedLengthsBacked
  /\ \A w \in Writers : WriterLengths(w)
  /\ xpc = "publish" => IndexFileLength <= xlen /\ xlen <= indexEof

Claimed == {rec[w] : w \in {v \in Writers : pc[v] \in {"write", "writelen"}}}
Placed  == data \cup Claimed
Disjoint(r, q) == r.start + r.size <= q.start \/ q.start + q.size <= r.start

\* Records in the data file, and the space claimed by writers that are still
\* copying, never overlap and lie inside the claimed part of the file,
\* whatever writer fails, dies or loses the compare-exchange.
RecordsDisjoint ==
  /\ \A r \in Placed : r.start + r.size <= DataValidLength
  /\ \A r, q \in Placed : r # q => Disjoint(r, q)

\* An entry a reader may follow (Committed) names a record that is completely
\* in the data file, under its own sequence number.
CommittedIsWritten ==
  \A s \in Slots : index[s].Committed =>
    \E r \in data : /\ r.seq % EntryModulus = s
                    /\ r.size = index[s].Length
                    /\ r.start = index[s].Offset

\* The index thread never counts past a sequence number whose entry is not
\* committed: a reader that stays below NumberOfRecords finds every entry.
CountedAreCommitted ==
  /\ \A s \in 0 .. NumberOfRecords - 1 : Committed(s)
  /\ \A s \in 0 .. cursor - 1 : Committed(s)

\* A counted record lies below the length that the global page shows: a reader
\* that follows that length finds the record in the file (dprobe/mspdtl.c,
\* MspLookupMappingObject: "the final firewall of correct mapping").
CountedWithinLengths ==
  \A s \in 0 .. NumberOfRecords - 1 :
    /\ s < IndexFileLength
    /\ index[s].Offset + index[s].Length <= DataFileLength

\* Whatever a reader below NumberOfRecords asks for is there: a committed entry,
\* in the part of the index file it may map, whose record lies in the part of the
\* data file it may map.
CountedAreReadable == CountedAreCommitted /\ CountedWithinLengths

\* An entry once committed is never changed, so a record that was shown stays
\* the same record.
CommittedImmutable ==
  [][\A s \in Slots : index[s].Committed => index'[s] = index[s]]_vars

(***************************************************************************)
(* Liveness.                                                                *)
(***************************************************************************)
\* Records committed without a hole before them are eventually counted, for
\* as long as the index thread has not been told to stop.
PrefixCounted ==
  \A n \in 1 .. MaxRecords :
    (\A s \in 0 .. n - 1 : Committed(s)) ~> (NumberOfRecords >= n \/ xpc = "stopped")

\* A writer that took a sequence number eventually returns to the probed
\* call: neither the retry loops nor the spin lock hold it for ever.
WriterReturns ==
  \A w \in Writers :
    (pc[w] = "filelen") ~> (pc[w] \in {"idle", "failed"})

\* MspUninitialize signals MspStopEvent and waits without a timeout for the
\* index thread: the thread does exit.
StopCompletes == stop ~> (xpc = "stopped")

(***************************************************************************)
(* The cache implements the log its readers rely on.                        *)
(***************************************************************************)
CommittedLog ==
  [s \in {t \in Slots : index[t].Committed} |->
     [Length |-> index[s].Length, Offset |-> index[s].Offset]]

Log == INSTANCE RecordLog
         WITH claimed <- issued, log <- CommittedLog, visible <- NumberOfRecords

\* Whatever the writers and the index thread do, what a reader can see
\* behaves as RecordLog.
ImplementsLog == Log!Spec

================================================================================
