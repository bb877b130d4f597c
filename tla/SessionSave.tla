------------------------------ MODULE SessionSave ------------------------------
(***************************************************************************)
(* Saving the records of a session: a work item (mspdtl.c) writes a report  *)
(* or a CSV file while a dialog (savedlg.c) shows how far it is.  The item  *)
(* calls SaveCallback on its own thread; the callback sends the dialog a    *)
(* message, and the save context belongs to whichever of the two is last to *)
(* use it.                                                                  *)
(*                                                                          *)
(* The records of the log were written by one thread or by many: see        *)
(* DataFile.  Positions in files are in abstract units, index lengths are   *)
(* entries, and rows of a CSV file are as long as the records they show.    *)
(* A call whose status nobody looks at may fail, too: the copying goes on   *)
(* with what the buffer held before, and from the place where it was.       *)
(***************************************************************************)
EXTENDS Integers, Sequences, DataFile

CONSTANTS
  Kinds,            \* the kinds of save that the user may ask for
  RecordSizes,      \* sizes of records, in data units
  DataMapUnit,      \* MSP_DATA_MAP_INCREMENT
  IndexMapUnit,     \* MSP_INDEX_MAP_INCREMENT, in entries
  CopyUnit,         \* DTL_COPY_UNIT, in entries
  CsvRound,         \* the records of a round of MspWriteCsvWorkItem
  MaxRecords,       \* bound: records of the log
  MaxFaults         \* bound: turns of a loop, or steps, with file calls that fail

AllKinds   == {"dtl", "dtlfiltered", "csv", "csvfiltered"}
DtlKinds   == {"dtl", "dtlfiltered"}
Sequential == {"dtl", "csv"}        \* read the data file from start to end

ASSUME SaveAssumption ==
  /\ Kinds \subseteq AllKinds
  /\ DataMapUnit \in Nat \ {0} /\ RecordSizes \subseteq 1 .. DataMapUnit
  /\ IndexMapUnit \in Nat \ {0} /\ CopyUnit \in Nat \ {0} /\ CsvRound \in Nat \ {0}
  /\ MaxRecords \in Nat \ {0} /\ MaxFaults \in Nat

VARIABLES
  kind, live,       \* what is saved: the kind of file, of a live session or not
  log,              \* log[n]: the extent of the n-th record of the log
  order,            \* order[i]: which record of the log is the i-th to be saved
  pc,               \* the work item's control point
  next, from,       \* the next record, and the file pointer of DataHandle
  to,               \* the file pointer of the file that is written
  pieces,           \* what the file was given: at which place, from which, how much
  entries,          \* the extents that the new file's index names
  round,            \* rounds of the index copied (MspReplicateRecord)
  lag,              \* reads of an index entry that failed unnoticed
  intact,           \* history: the records before the first unnoticed failure
  note, cancel,     \* the callback's arguments and place to return to; its result
  file,             \* the file at the user's path: absent, being written, complete
  barrier,          \* MspStackTraceBarrier
  dialog, state,    \* whether the dialog is there; Context->State
  told,             \* history: the dialog was told 100 percent
  frees, touched,   \* history: SdkFree calls for Context; it was read afterwards
  faults

dataVars   == <<kind, live, log, order>>
fileVars   == <<next, from, to, pieces, entries, round, lag, intact>>
dialogVars == <<dialog, state, told, frees, touched>>
vars == <<dataVars, pc, fileVars, note, cancel, file, barrier, dialogVars, faults>>

Count     == Len(order)              \* the records that are saved
Fault     == faults < MaxFaults /\ faults' = faults + 1
EmptyNote == [full |-> FALSE, abort |-> FALSE, back |-> "open"]

Logs ==
  {l \in [1 .. MaxRecords -> [start : 0 .. MaxRecords * DataMapUnit, size : RecordSizes]] :
     FillsFile(l)}

\* A filter chose some of the records; else all that were counted are saved.
Orders(k) ==
  IF k \in Sequential THEN {[i \in 1 .. n |-> i] : n \in 1 .. MaxRecords}
  ELSE UNION {{o \in [1 .. n -> 1 .. MaxRecords] : \A i, j \in 1 .. n : i < j => o[i] < o[j]} :
                n \in 1 .. MaxRecords}

Init ==
  /\ kind \in Kinds /\ live \in BOOLEAN
  /\ log \in Logs /\ order \in Orders(kind)
  /\ pc = "open" /\ next = 1 /\ from = 0 /\ to = 0
  /\ pieces = {} /\ entries = <<>> /\ round = 0
  /\ lag = 0 /\ intact = Count
  /\ note = EmptyNote /\ cancel = FALSE
  /\ file = "absent" /\ barrier = FALSE
  /\ dialog = "open" /\ state = "Started"
  /\ told = FALSE /\ frees = 0 /\ touched = FALSE
  /\ faults = 0

--------------------------------------------------------------------------------
(***************************************************************************)
(* SaveCallback, called by the work item.  What is read of a freed context  *)
(* may be anything.                                                         *)
(***************************************************************************)
States == {"Started", "UserAborted", "MspAborted"}
Seen   == IF frees = 0 THEN {state} ELSE States

Callback(full, abort, back) ==
  /\ pc' = "enter"
  /\ note' = [full |-> full, abort |-> abort, back |-> back]

CallbackReturns(result) ==
  /\ pc' = note.back
  /\ cancel' = result

EnterCallback ==
  /\ pc = "enter"
  /\ touched' = (touched \/ frees > 0)
  /\ \/ /\ "UserAborted" \in Seen
        /\ frees' = frees + 1
        /\ CallbackReturns(TRUE)
     \/ /\ Seen # {"UserAborted"}
        /\ pc' = "send"
        /\ UNCHANGED <<frees, cancel>>
  /\ UNCHANGED <<dataVars, fileVars, note, file, barrier, dialog, state, told, faults>>

\* SendMessage: SaveOnUserSave runs on the dialog's thread, if there is a dialog.
SendMessage ==
  /\ pc = "send"
  /\ pc' = "check"
  /\ \/ dialog = "closed" /\ UNCHANGED dialogVars
     \/ /\ dialog = "open" /\ note.abort
        /\ state' = "MspAborted"
        /\ UNCHANGED <<dialog, told, frees, touched>>
     \/ /\ dialog = "open" /\ ~note.abort
        /\ dialog' = IF note.full THEN "closed" ELSE "open"
        /\ told' = note.full
        /\ UNCHANGED <<state, frees, touched>>
  /\ UNCHANGED <<dataVars, fileVars, note, cancel, file, barrier, faults>>

\* Faulty variant: the user's cancelling is noticed by the next call only.
LeaveCallbackUnaware ==
  /\ pc = "check"
  /\ touched' = (touched \/ frees > 0)
  /\ frees' = IF note.full THEN frees + 1 ELSE frees
  /\ CallbackReturns(note.full \/ note.abort)
  /\ UNCHANGED <<dataVars, fileVars, note, file, barrier, dialog, state, told, faults>>

LeaveCallback ==
  /\ pc = "check"
  /\ touched' = (touched \/ frees > 0)
  /\ \/ /\ "UserAborted" \in Seen \/ note.full
        /\ frees' = frees + 1
        /\ CallbackReturns(TRUE)
     \/ /\ Seen # {"UserAborted"} /\ ~note.full
        /\ CallbackReturns(note.abort)
        /\ UNCHANGED frees
  /\ UNCHANGED <<dataVars, fileVars, note, file, barrier, dialog, state, told, faults>>

\* SaveOnCancel: the user gives up, or has read that saving failed.
UserCancels ==
  /\ dialog = "open"
  /\ dialog' = "closed"
  /\ touched' = (touched \/ frees > 0)
  /\ IF state = "MspAborted" THEN frees' = frees + 1 /\ UNCHANGED state
                             ELSE state' = "UserAborted" /\ UNCHANGED frees
  /\ UNCHANGED <<dataVars, pc, fileVars, note, cancel, file, barrier, told, faults>>

--------------------------------------------------------------------------------
(***************************************************************************)
(* Opening the files.  A report is told about a file that cannot be opened; *)
(* so is a filtered CSV file, and a CSV file is not.                        *)
(***************************************************************************)
OpenFiles ==
  /\ pc = "open"
  /\ pc' = "record"
  /\ file' = "written"
  /\ barrier' = (live /\ kind \in DtlKinds)
  /\ UNCHANGED <<dataVars, fileVars, note, cancel, dialogVars, faults>>

\* Faulty variant: no kind tells the dialog.
OpenFailsSilent ==
  /\ pc = "open" /\ Fault
  /\ pc' = "ended"
  /\ UNCHANGED <<dataVars, fileVars, note, cancel, file, barrier, dialogVars>>

OpenFails ==
  /\ pc = "open" /\ Fault
  /\ IF kind = "csv" THEN pc' = "ended" /\ UNCHANGED note
                     ELSE Callback(FALSE, TRUE, "ended")
  /\ UNCHANGED <<dataVars, fileVars, cancel, file, barrier, dialogVars>>

(***************************************************************************)
(* Copying a record: the filtered kinds set the file pointer to the place   *)
(* that the index names, the others read on from where they are.            *)
(***************************************************************************)
\* Faulty variant: the filtered kinds read on, too.
PlaceWithoutSeek == from

Place == IF kind \in Sequential THEN from ELSE log[order[next]].start

\* The length in the entry that was read last; before the first, of no entry.
LengthsRead(n) == IF n = 0 THEN RecordSizes ELSE {log[order[n]].size}

Copy(size, read, written) ==
  /\ pieces' = IF read /\ written
               THEN pieces \cup {[at |-> to, from |-> Place, size |-> size]} ELSE pieces
  /\ from' = IF read THEN Place + size ELSE from
  /\ to' = IF written THEN to + size ELSE to
  /\ LET r == log[order[next]] IN
     entries' = Append(entries, [start |-> IF kind = "dtl" THEN r.start ELSE to,
                                 size |-> r.size])
  /\ next' = next + 1

CopyRecord ==
  /\ \E size \in LengthsRead(next - lag) : Copy(size, TRUE, TRUE)
  /\ UNCHANGED <<lag, intact, faults>>

Unnoticed(first) ==
  /\ Fault
  /\ intact' = IF first <= intact THEN first - 1 ELSE intact

\* MspReplicateRecord looks at no status, MspWriteCsvRound not at that of the read:
\* of an entry of the index, of the record, and of the record's writing some fail.
SpoilRecord ==
  /\ kind \in Sequential /\ Unnoticed(next)
  /\ \E stale, read, written \in BOOLEAN :
       /\ stale \/ ~read \/ ~written
       /\ kind = "csv" => ~stale /\ written
       /\ lag' = IF stale THEN lag + 1 ELSE lag
       /\ \E size \in LengthsRead(next - lag') : Copy(size, read, written)

\* The dialog is told at the end of a round of CSV rows, otherwise when there was
\* some progress; by the filtered kinds not after the first record.
TellsProgress ==
  \/ kind = "dtl"
  \/ kind = "csv" /\ next % CsvRound = 0
  \/ kind \notin Sequential /\ next > 1
MayKeepQuiet == kind # "csv" \/ next % CsvRound # 0

\* The percentage of the records copied may reach 100 when their lengths are wrong.
Full == {kind = "csv" /\ next = Count} \cup {f \in {TRUE} : lag' > 0}

WriteRecord ==
  /\ pc = "record" /\ next <= Count
  /\ CopyRecord \/ SpoilRecord
  /\ \/ /\ TellsProgress
        /\ \E full \in Full : Callback(full, FALSE, "recordtold")
     \/ MayKeepQuiet /\ UNCHANGED <<pc, note>>
  /\ UNCHANGED <<dataVars, round, cancel, file, barrier, dialogVars>>

\* The filtered kinds look at every status, a CSV file at that of reading the index
\* and writing a row.  The percentage of a CSV file that fails in its first round is
\* not initialized.
WriteFails ==
  /\ pc = "record" /\ kind # "dtl" /\ Fault
  /\ next <= Count \/ kind = "dtlfiltered"
  /\ \E full \in {FALSE} \cup {f \in {TRUE} : kind = "csv" /\ next <= CsvRound} :
       Callback(full, TRUE, "failed")
  /\ barrier' = FALSE
  /\ UNCHANGED <<dataVars, fileVars, cancel, file, dialogVars>>

Failed ==
  /\ pc = "failed"
  /\ pc' = "ended" /\ file' = "absent"
  /\ UNCHANGED <<dataVars, fileVars, note, cancel, barrier, dialogVars, faults>>

\* Faulty variant: the filtered kind leaves the barrier as well.
RecordToldLeaves ==
  /\ pc = "recordtold"
  /\ \/ ~cancel /\ pc' = "record" /\ UNCHANGED file
     \/ cancel /\ pc' = "ended" /\ file' = "absent"
  /\ UNCHANGED <<dataVars, fileVars, note, cancel, barrier, dialogVars, faults>>

\* A save that is cancelled deletes its file; MspReplicateRecord leaves the
\* barrier where it is.
RecordTold ==
  /\ pc = "recordtold"
  /\ \/ ~cancel /\ pc' = "record" /\ UNCHANGED <<file, barrier>>
     \/ /\ cancel
        /\ pc' = "ended" /\ file' = "absent"
        /\ barrier' = (barrier /\ kind = "dtl")
  /\ UNCHANGED <<dataVars, fileVars, note, cancel, dialogVars, faults>>

\* After the last record.
RecordsDone ==
  /\ pc = "record" /\ next > Count
  /\ barrier' = FALSE
  /\ pc' = IF kind = "dtl" THEN "index" ELSE "header"
  /\ UNCHANGED <<dataVars, fileVars, note, cancel, file, dialogVars, faults>>

--------------------------------------------------------------------------------
(***************************************************************************)
(* MspReplicateRecord copies the index in rounds of CopyUnit, and then what *)
(* is left.  After a round that is the whole of it the percentage is 100.   *)
(***************************************************************************)
IndexLength == RoundUp(Count, IndexMapUnit)
FullIndex   == kind = "dtl" /\ IndexLength % CopyUnit = 0

\* Faulty variant: a round more than there are.
CopyIndexRoundMore ==
  /\ pc = "index" /\ round <= IndexLength \div CopyUnit
  /\ round' = round + 1
  /\ Callback((round + 1) * CopyUnit = IndexLength, FALSE, "roundtold")
  /\ UNCHANGED <<dataVars, next, from, to, pieces, entries, lag, intact, cancel, file,
                 barrier, dialogVars, faults>>

\* What is not read leaves out these entries, what is not written moves the others.
SpoilIndex(first, last) ==
  /\ Unnoticed(first)
  /\ entries' = [i \in DOMAIN entries |->
                  IF first <= i /\ i <= last THEN [start |-> 0, size |-> 0] ELSE entries[i]]

CopyEntries(last) ==
  \/ UNCHANGED <<entries, intact, faults>>
  \/ \E l \in {last, Count} : SpoilIndex(round * CopyUnit + 1, l)

CopyIndexRound ==
  /\ pc = "index" /\ round < IndexLength \div CopyUnit
  /\ CopyEntries((round + 1) * CopyUnit)
  /\ round' = round + 1
  /\ Callback((round + 1) * CopyUnit = IndexLength, FALSE, "roundtold")
  /\ UNCHANGED <<dataVars, next, from, to, pieces, lag, cancel, file, barrier, dialogVars>>

RoundTold ==
  /\ pc = "roundtold"
  /\ \/ /\ ~cancel \/ note.full
        /\ pc' = "index" /\ cancel' = FALSE
        /\ UNCHANGED file
     \/ /\ cancel /\ ~note.full
        /\ pc' = "ended" /\ file' = "absent"
        /\ UNCHANGED cancel
  /\ UNCHANGED <<dataVars, fileVars, note, barrier, dialogVars, faults>>

\* "We don't specify it's complete since we still want to copy": 99 percent.
CopyIndexRest ==
  /\ pc = "index" /\ round = IndexLength \div CopyUnit
  /\ IF IndexLength % CopyUnit = 0 THEN UNCHANGED <<entries, intact, faults>>
                                    ELSE CopyEntries(Count)
  /\ Callback(FALSE, FALSE, "resttold")
  /\ UNCHANGED <<dataVars, next, from, to, pieces, round, lag, cancel, file, barrier, dialogVars>>

RestTold ==
  /\ pc = "resttold"
  /\ \/ ~cancel /\ pc' = "header" /\ UNCHANGED file
     \/ cancel /\ pc' = "ended" /\ file' = "absent"
  /\ UNCHANGED <<dataVars, fileVars, note, cancel, barrier, dialogVars, faults>>

\* The last parts of the file, and 100 percent: but not for a filtered CSV file.  A
\* report whose header is not written has no index.
WriteHeader ==
  /\ pc = "header"
  /\ \/ UNCHANGED <<entries, intact, faults>>
     \/ kind \in DtlKinds /\ SpoilIndex(1, Count)
  /\ file' = "complete"
  /\ IF kind = "csvfiltered" THEN pc' = "ended" /\ UNCHANGED note
                             ELSE Callback(TRUE, FALSE, "ended")
  /\ UNCHANGED <<dataVars, next, from, to, pieces, round, lag, cancel, barrier, dialogVars>>

WorkItem ==
  \/ EnterCallback \/ SendMessage  \/ LeaveCallback
  \/ OpenFiles     \/ OpenFails    \/ WriteRecord   \/ WriteFails \/ Failed
  \/ RecordTold    \/ RecordsDone  \/ CopyIndexRound \/ RoundTold
  \/ CopyIndexRest \/ RestTold     \/ WriteHeader

Next == WorkItem \/ UserCancels

Spec == Init /\ [][Next]_vars

\* A queued work item runs; a user need not cancel.
FairSpec == Spec /\ WF_vars(WorkItem)

--------------------------------------------------------------------------------
Labels == {"open", "enter", "send", "check", "record", "failed", "recordtold", "index",
           "roundtold", "resttold", "header", "ended"}
Backs  == {"open", "ended", "failed", "recordtold", "roundtold", "resttold"}
Extents == [start : Nat, size : Nat]

\* The ranges of every variable.  What could go wrong: a record past the last, or
\* one freed context given back again and again.
TypeOK ==
  /\ kind \in Kinds /\ live \in BOOLEAN
  /\ log \in Logs /\ order \in Orders(kind)
  /\ pc \in Labels
  /\ next \in 1 .. Count + 1 /\ from \in Nat /\ to \in Nat
  /\ pieces \subseteq [at : Nat, from : Nat, size : RecordSizes]
  /\ entries \in Seq(Extents) /\ Len(entries) = next - 1
  /\ round \in 0 .. IndexLength \div CopyUnit
  /\ lag \in 0 .. next - 1 /\ intact \in 0 .. Count
  /\ note \in [full : BOOLEAN, abort : BOOLEAN, back : Backs] /\ cancel \in BOOLEAN
  /\ file \in {"absent", "written", "complete"} /\ barrier \in BOOLEAN
  /\ dialog \in {"open", "closed"} /\ state \in States
  /\ told \in BOOLEAN /\ frees \in Nat /\ touched \in BOOLEAN
  /\ faults \in 0 .. MaxFaults

\* Where the records end in the file: MspComputeReplicaLength rounds the end of
\* the last record up, a filtered report what was written.
DataLength ==
  IF kind = "dtl" THEN RoundUp(EndOf(log[order[Count]]), DataMapUnit) ELSE to

\* The i-th record is where the file's index says, all of it.
UnitAt(u, source) ==
  \E p \in pieces : p.at <= u /\ u < p.at + p.size /\ p.from + (u - p.at) = source
Held(i) ==
  LET e == entries[i]  r == log[order[i]]
  IN  /\ e.size = r.size /\ EndOf(e) <= DataLength
      /\ \A k \in 0 .. r.size - 1 : UnitAt(e.start + k, r.start + k)

\* A complete file has every record that was to be saved at the place its index
\* names, up to the first failure that was not noticed: when a filter chose them
\* always, since each is sought and all but the header's writing is noticed; when
\* all are saved only if the log has them in the order of its index, since the data
\* file is read from start to end and cut behind the last of them.
SavesTheRecords ==
  file = "complete" /\ (kind \in Sequential => InOrder(log)) =>
    /\ next = Count + 1 /\ \A i \in 1 .. intact : Held(i)
    /\ faults = 0 => intact = Count

\* A CSV file that cannot be opened is not announced.
Unopened == kind = "csv" /\ pc = "ended" /\ next = 1

\* "the context is freed in callback routine" (savedlg.c): whoever is last frees
\* it, once, and nobody looks at it afterwards, however the user's cancelling
\* meets the work item's calls; with these exceptions: it is looked at after it was
\* freed when the user closes the dialog of a save that fails, or the last round
\* of the index was a full one; a CSV file that is never announced leaks it.
ContextFreedOnce ==
  /\ faults = 0 /\ ~FullIndex => ~touched /\ frees <= 1
  /\ pc = "ended" /\ dialog = "closed" =>
       \/ frees >= 1
       \/ kind = "csvfiltered" /\ file = "complete"
       \/ Unopened

\* The decode thread is paused while a live session's stack traces are decoded for
\* a report, and goes on afterwards; after a whole report that was cancelled it
\* does not.
BarrierWhileSaving ==
  /\ live /\ kind \in DtlKinds /\ pc = "record" => barrier
  /\ pc = "ended" /\ barrier => kind = "dtl" /\ file = "absent"

\* When the work item has ended the file is complete or gone, and it is complete
\* when the user was told so; but not a CSV file of nothing but full rounds, nor a
\* report whose lengths were not read, and a report whose index has no rest asks a
\* context that may say anything.
FileAfterwards ==
  pc = "ended" =>
    /\ file # "written"
    /\ told /\ ~FullIndex /\ lag = 0 /\ (kind = "csv" => Count % CsvRound # 0) =>
         file = "complete"

\* The work item leaves neither a paused decode thread nor a part of a file behind,
\* whichever of its calls fails or is answered by cancelling.
CleansUp == BarrierWhileSaving /\ FileAfterwards

\* The dialog is closed, by 100 percent or by the user, or says that saving failed;
\* only a filtered CSV file, and one that cannot be opened, leave it as it is.
DialogAnswered ==
  (kind # "csvfiltered") ~>
    (dialog = "closed" \/ state = "MspAborted" \/ Unopened)

--------------------------------------------------------------------------------
\* "we don't need to adjust the record offset when we read the record in report
\* mode" (MspWriteDtlWorkItem): a report of all records has them at the offsets of
\* the session's index.
OffsetsNeedNoAdjusting ==
  kind = "dtl" /\ file = "complete" => \A i \in 1 .. Count : Held(i)
================================================================================
