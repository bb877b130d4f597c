# Verification of dprobe

dprobe traces function calls of running Windows processes.  A control program
(`src/dprobe`) loads a runtime library (`src/btr`) into every traced process; the
runtime patches the probed functions, records each call, and appends the records
to two files that all traced processes and the control program share.  Filters
(`src/flt`) decode the arguments of well-known functions.  The repository has no
tests and no documentation beyond its top-level README, so the code and its
comments are the reference throughout.

This directory holds TLA+ models of the parts with state and concurrency, TLC
runs on small instances, and proofs checked by TLAPS.

## Inventory

| Component | State | Operations | Hard behaviour | Correct when |
|---|---|---|---|---|
| Shared cache writers (`btr/cache.c`, `btr/queue.c`) | shared page (`BTR_SHARED_DATA`): sequence, two file lengths, valid length, full flag, lock; per thread two sections with views | create sections, take a sequence number, claim a range, extend, write, commit | lock-free claims by threads of several processes; lengths read before use; a process terminated in between | records never overlap, a committed entry names a complete record and never changes |
| Spin lock (`btr/lock.c`, copy in `dprobe/mspdtl.c`) | bit and owner id in shared memory | acquire, release | across processes; owner may die; re-entry test | one owner |
| Index thread (`dprobe/mspdtl.c`) | private mapping, scan position, `NumberOfRecords` | timer tick, scan, slide view, extend, stop | races with the writers for the end of the index file | published count covers committed entries only, grows to every prefix, thread exits on stop |
| Record readers (`dprobe/mspdtl.c`, `logview.c`, `counterhint.c`, `reportdlg.c`) | one view of the index and one of the data file per session, shared without a lock; stall mode | look up, map, copy | a growing log; a work item beside the window; failed mappings | the record copied is the one asked for, and all of it is mapped |
| Filter index (`dprobe/mspdtl.c`, `filterhint.c`, `logview.c`, `condition.c`) | per condition a file of sequence numbers, two views, `LastScannedSequence` | attach, detach, scan and append, filtered copy | scans by window and work thread, failures between appends | the filter file is the matching sequences once each, in order |
| Saving (`dprobe/savedlg.c`, the writers of `dprobe/mspdtl.c`) | the save context and its state, the pointers of the files, `MspStackTraceBarrier` | write a report or a CSV file, all or filtered; call back; cancel | dialog and work item share a context whose last user frees it; records in another order than their index; a fault, a cancel or 100 percent at any call | the file has every record where its index says, or is gone; the context is freed once; the decode thread goes on |
| Runtime scheduler and stop (`btr/sched.c`, `btr/btr.c`) | four notification queues, ten cached packets, the thread handles | notify, write, scan, stop | stop while threads wait; packets reused | stop ends, no packet is used by two |
| Thread objects (`btr/thread.c`) | active and rundown lists, exemption and rundown flags, frame depth | attach, detach, rundown scan, suspend | detach inside a probed call; unload while threads are in traps | each object freed once, and only when no frame refers to it |
| Probes and unload (`btr/probe.c`, `trap.c`, `filter.c`, `unload.c`) | probe table, reference counts, trap pages | register, unregister, unload | threads inside the patched code | code is never removed under a thread |
| Call frames (`btr/call.c`, `btrsdk.c`) | frame list, thread buffer, exemption cookie | push, execute, record, pop | nested calls, exceptions unwinding frames | buffer has one user; exempt exactly while inside the runtime |
| Counters (`btr/counter.c`) | per probe and global counters | update | lock-free minimum and maximum | extremes of the durations recorded |
| Stack traces (`btr/stktrace.c`) | buckets with chained entries, two lists | capture, insert, scan, flush | entry used after its lock is released | no entry used after it is freed |
| Heaps, bitmaps (`btr/heap.c`, `bitmap.c`) | look-aside lists, bit arrays | allocate, adjust depth, find run | counters racing | allocation disjointness |
| Message port (`btr/ipc.c`, `dprobe/mspport.c`) | one pipe, one buffer per side | request, acknowledge | request and answer out of step | each answer is to its request |
| Control commands (`dprobe/mspprocess.c`, `mspqueue.c`, `mspprobe.c`) | process list and states, queues, probe tables | start, stop, probe, stop all | queueing to a process that stops; timeouts | each command completes once |
| Injection, debugger, symbols, database, user interface, filters, sqlite | | | system calls, presentation, decoding | not modelled, see below |

Components interact through: the shared page and the two files (writers and index
thread), the named pipe (control commands and the message thread of the
runtime), in-process queues with events (scheduler and commands), and patched
code (probes and the threads that call it).

## Plan

1. `SharedCache`, `RecordLog` -- the core; **done**, with the proofs of its types,
   its safety properties and the step simulation.
2. `RecordReader` and `FilterIndex` -- reading records back through moving
   views, and the filter file of a condition; **done**, with the proofs of their
   safety properties.  `SessionSave` -- writing records to a report or a CSV file, and
   the save dialog's context; **done**, with the proofs of its safety properties.
3. `SpinLock` and `Mutex` -- the two words of the lock, re-entry and owner death;
   **done**, with proofs.  It implements the one-step `Acquire`/`Release` of `SharedCache`.
4. `RuntimeStop` -- queues, cached packets and the stop protocol; **done**, with the
   proofs of its safety properties.
5. `ProbeCalls` -- thread objects, frames, references, registration and unload in
   one module, since every one of its properties relates two of them; **done**,
   with the proofs of its safety properties.
6. `ControlCommands` -- the control side, its queue and its pipe; **done**, with the
   proofs of its safety properties.
7. Left: `StackTraceDatabase` (an entry used after its bucket's lock is released),
   bounded checks of the bitmap search and of the look-aside depth, the counters.

Abstract specifications: `RecordLog` for 1, `Mutex` for 3.

## SharedCache

### State

| Variable | Code |
|---|---|
| `Sequence`, `SequenceFull`, `DataValidLength`, `DataFileLength`, `IndexFileLength`, `SpinLock` | the fields of `BTR_SHARED_DATA` (`btr/btr.h:694`) |
| `dataEof`, `indexEof` | end of file as the kernel knows it |
| `data` | the records completely copied into the data file |
| `index` | the entries (`BTR_FILE_INDEX`) of the index file |
| `pc`, `rec`, `len` | per writer: control point, record in hand with its claimed start, the length held in a local |
| `dmap`, `imap` | the thread's two `BTR_MAPPING_OBJECT`s: view, `FileLength`, and the true length of the section |
| `xpc`, `cursor`, `xmap`, `xlen`, `NumberOfRecords`, `stop` | the index thread, its mapping, the length it read, the published count, `MspStopEvent` |
| `issued`, `faults` | counters of the bounds `MaxRecords` and `MaxFaults` |

### Actions

One action per access to shared state, in the order of the code.  A writer:
`CreateDataMapping` ... `ReadIndexMappingLength` are `BtrCreateMappingPerThread`;
`AcquireSequence` is the increment of `BtrQueueSharedCacheRecord`; `ReadFileLength`
... `UnlockDataLength` are `BtrAcquireWritePosition`; `CopyRecord` ...
`ReadRecreatedLength` are `BtrWriteSharedCacheRecord`; `FillEntry` ...
`RecreateIndexMapping` are `BtrWriteSharedCacheIndex`.  The index thread: `TimerTick`
... `RemapIndex` are `MspIndexProcedure` and `MspUpdateNextSequence`, `RequestStop`
is the `SetEvent` of `MspUninitialize`.  `Die` terminates a traced process: the
thread stops at any control point and a lock it holds stays held.

A system call that can fail has a `Fault` alternative that follows the code's
error path.  A thread whose sections cannot be created logs nothing at all
(`exempt`).  One whose record fails (`Fail`) is exempt in the calls that it begins
afterwards, but each call that it is inside of still writes its record, with the
views and sections as the failure left them, and clears the flag when that succeeds
(`MayLog`).  Two values the code
reads without having assigned them -- `ExtendedLength` at `btr/cache.c:590`, `Status`
at `dprobe/mspdtl.c:1825` -- are chosen from the constants `GarbageLengths` and
`GarbageStatusOk`.

### Abstractions

* Lengths of the data file are in abstract units, those of the index file in
  entries.  `SequenceModulus`, `EntryModulus` and `OffsetModulus` keep the widths
  of `Sequence` (32 bits), of the product `Sequence * sizeof(BTR_FILE_INDEX)` (32 or
  64 bits) and of `Offset` (36 bits).
* A record's contents are left out; a record is its sequence number, size and
  place.  `Length` is as wide as needed (the code has 16 bits).
* A handle that was closed maps nothing (`Closed`); the code keeps its value after a
  failure and closes it once more (`btr/cache.c:506`), which is harmless unless the
  system has given the value to another object: that is not modelled.
* A lock taken only to read one length is one step.  The spin lock itself is
  atomic: `SpinLock!ImplementsMutex` is the reason.
* The two stores of an entry's `Length` and `Offset` are one step, the store of
  `Committed` another, in the order of the source.
* 64-bit lengths are read in one step; torn reads of a 32-bit build are listed
  as a hazard and not modelled.
* The index thread's start (its own file handle and first view) is its initial
  state; a failure there means that the thread never runs.

### RecordLog

What readers rely on: sequence numbers are claimed one after the other, each is
committed at most once with an extent no other record has, never changes, and
the visible prefix has no hole.  `SharedCache!ImplementsLog` maps `claimed` to
`issued`, `log` to the committed entries and `visible` to `NumberOfRecords`.

### Runs

These runs use module `MCSharedCache`, which extends `SharedCache` with the
symmetry set of the writers (not used for liveness).  `CHECK_DEADLOCK FALSE`: a
run really ends when the bound `MaxRecords` is reached or every thread has stopped.

| Run | Checks | Shows |
|---|---|---|
| `cache_safety` | `TypeOK`, `LengthsInFlight`, `RecordsDisjoint`, `CountedAreReadable`, `CommittedIsWritten`, `CommittedImmutable` | two writers, files that must be extended, one failing call after which the writer may log again, either process terminated at any step |
| `cache_live` | `PrefixCounted`, `WriterReturns`, `StopCompletes`, `ImplementsLog` | without terminations and failures: several views of the index up to its maximum, the abstract log implemented, and progress under fairness |

### Bounds of these runs

Two writers and the index thread are the smallest set in which each race occurs
between two writers and between a writer and the index thread.  Increments of
two or three units with records of one or two make every second or third record
extend a file; index views of two entries with increments of two or four make the
index thread slide, extend and follow.  `MaxRecords` of three or four lets a thread
write through a view it mapped before and after an extension by another.
Moduli are larger than `MaxRecords`: with the files' maxima nothing wraps in a
64-bit build until the 2^32nd record (the 32-bit build is under "Also observed").
One fault places a failure at every call in turn.

### Fairness of these runs

`FairSpec` assumes that every thread that can take a step eventually does (weak
fairness of each writer's steps and of the index thread's), which the
operating system's scheduler provides, and that a signalled stop event is
eventually returned by `WaitForMultipleObjects` though the timer is signalled
again and again (strong fairness of `StopEvent`): the timer has a period of half a
second and a scan ends in between.  Taking a sequence number has no fairness:
a thread need not call a probed function.  The bound on records makes lost
compare-exchanges finite; without it `WriterReturns` is the usual lock-free
guarantee (some thread succeeds).

## RecordReader

Reading a record back: `MspCopyRecord` looks the entry up through the session's
view of the index file (`MspLookupIndexBySequence`) and the record through its
view of the data file (`MspLookupMappingObject`).  The log it reads is the one
`SharedCache` promises by `CountedAreReadable`: counted records are committed
(`CountedAreCommitted`) and lie within the published lengths (`CountedWithinLengths`).

| Variable | Code |
|---|---|
| `log`, `dataLength`, `indexLength` | the extents of the counted records and the lengths in the global page |
| `written`, `validLength` | extents that writers took for records not counted yet; `DataValidLength` |
| `ifile`, `imap`, `dfile`, `dmap` | `FileLength` and `MSP_MAPPING_OBJECT` of `IndexObject` and `DataObject`; `section` is the length of the section, 0 when its handle is closed; what `MappedVa` shows (`view`; `from`, `to`) is apart from the labels (`first`, `last`; `lo`, `hi`) |
| `pc`, `want`, `hit`, `len` | per reader: control point, `Sequence`, the entry found, `FileLength` or `End` |
| `report` | whether the log is a report (complete) or a live session (growing) |
| `stall`, `scanned` | the report window's stall mode, `ScannedNumber` of the counting dialog |
| `shared`, `mixed` | history, for the properties only: readers whose call overlapped another's, and the views that such readers moved and that no reader alone has mapped anew |

A writer takes its sequence number before its extent, so that the extents of
several threads may lie in another order than the index: `WriteRecord` takes an
extent and leaves its number open until `CountRecord`, the index thread, gives it the
next one; `ExtendData` and `ExtendIndex` are the extensions by writers and index
thread.  A report (`ReportLogs`) has records in any order that all lie before the
end of the last one's unit, where the file ends (see `save_order` for the others).

`View` is `LogViewOnGetDispInfo`; `ScanNext`, `ScanTimer`, `ScanCancel` are the
counting dialog of a report (`counterhint.c`); `SaveLast` and `SaveLooksUp` are
`MspComputeReplicaLength`, which `MspWriteDtlWorkItem` calls on a pool thread.
`LookupIndex` ... `OpenIndex` and `LookupData` ... `OpenData` are the two lookups,
`Return` goes back to the caller.  A view is mapped (`MapIndex`, `MapData`,
`OpenData`) and then labelled (`LabelIndex`, `LabelData`), and a section closed and
then created anew, each in two steps, so that another reader may come between.
Abstractions: the label stores of one view are one step, and so are those that
clear it; reading through a null view or outside the view is `crashed`, and a record
read through a view of another place may be copied or crash; an empty report is not
modelled.

| Run | Checks | Shows |
|---|---|---|
| `reader` | `TypeOK`, `CopiesAskedRecord`, `CopyReturns` | window and work item read a live log that grows, or a report that is counted, with one failing call |

`CopiesAskedRecord` has three parts: the entry found is the one asked for
(`FoundIsAsked`), and the view a record (`RecordMapped`) or an entry (`EntryMapped`)
is read through has all of it.  Nothing keeps the saving work item and the window
apart, so their calls may overlap and each may move the views under the other.
`CopiesAskedRecord` and `CopyReturns` are therefore about readers that are `Alone`
during a call.  Overlapping calls may also leave a view behind that has the labels of
another: one reader maps, the other labels (dprobe/mspdtl.c:967 and 974, 1113 and
1114, 1157 and 1166).  Every later reader whose place is within those labels reads
another record, until one needs another place and maps it.  `CopiesAskedRecord` excepts
such views (`mixed`), and only until then.
`OneReader` says where stall mode keeps the two apart; it has a theorem and no run.

Bounds: a data file mapped by units of three and extended by one at a time, an
index file by views of two entries, and three records of two units, in every order, give
records that cross a unit's end, slides of both views, and an extension of each file.
Fairness: the readers' threads and the timer run; what the user asks for is
free.  `CHECK_DEADLOCK FALSE`: a run ends when the log is full and nobody asks, or
after a crash.

## SessionSave

Saving the records of a session: `MspSaveFile` queues a work item, which writes the
file, while a dialog shows how far it is.  The work item calls `SaveCallback` on its
own thread; the callback sends the dialog a message and reads the save context
before and after.  There are four kinds of save (`Kinds`): a report (`dtl`) or a CSV file
(`csv`) of all records, and either of the filtered records.

| Variable | Code |
|---|---|
| `kind`, `live` | which of `MspReplicateRecord`, `MspWriteDtlFiltered`, `MspWriteCsvWorkItem`, `MspWriteCsvFiltered`; `DTL_LIVE` |
| `log`, `order` | the extents of the records, and which of them are saved |
| `next`, `from`, `to` | the loop variable; the file pointers of `DataHandle` and of the new file |
| `pieces`, `entries` | what was written where, and the extents that the new file's index names |
| `round` | rounds of `DTL_COPY_UNIT` of the index copied |
| `lag` | how many reads of an index entry failed unnoticed: the file pointer of `IndexHandle` is this many entries behind `i` |
| `intact` | history: the records before the first failure that nobody noticed |
| `pc`, `note`, `cancel` | the work item, the arguments of its call of `SaveCallback`, and the call's result |
| `file`, `barrier` | the file at the user's path; `MspStackTraceBarrier` |
| `dialog`, `state` | the dialog's window; `Context->State` |
| `told`, `frees`, `touched` | history: 100 percent was shown; `SdkFree` calls; the context was read after one |

`EnterCallback`, `SendMessage` and `LeaveCallback` are `SaveCallback` with `SaveOnUserSave`;
`UserCancels` is `SaveOnCancel`, at any moment between them.  `OpenFiles` and `OpenFails`
open the files, `WriteRecord` is one turn of the loop over records, `WriteFails` and `Failed`
its error path, `RecordTold` what follows the callback, `RecordsDone` the end of the loop.
`CopyIndexRound` ... `RestTold` are the index of a whole report, `WriteHeader` the last
parts.  A place in the file is where the pointer is: only the filtered kinds set it
(`Place`).  Fields of a freed context have any value (`Seen`).

A failing read or write ends the save only where its status is looked at
(`WriteFails`).  `MspReplicateRecord` looks at none, `MspWriteCsvRound` not at that of
reading a record, and nobody at that of writing the header: the work item goes
on with what its buffer held, from where the file pointer was, and announces a complete
file.  `SpoilRecord` is such a turn of the loop over records, in which the entry's read,
the record's read and its write fail in any combination; `SpoilIndex` is such a round of
copying the index, or a header that is not written.  `SavesTheRecords` is therefore about
the records before the first unnoticed failure (`intact`), which are all of them when
nothing failed.  What is shown of progress may reach 100 percent when lengths were not
read (`Full`).

Abstractions: the records do not change while they are saved (those counted are
committed); a row is as long as its record, and what it shows is left out; progress
that was not shown may be shown or not; a write that fails leaves its file pointer, and a
read that fails its buffer, so that a length that was never read is any of
`RecordSizes` (`LengthsRead`); setting a file pointer or a file's end does not fail;
one fault is a turn or a step with failing calls; an empty log is not saved.  Copying the
index of a filtered report, which has no callback, is a part of `WriteHeader`, and its
failures of `WriteFails`; the stack traces and probes of a report, and the first row of a
CSV file, are left out.

| Run | Checks | Shows |
|---|---|---|
| `save` | `TypeOK`, `SavesTheRecords`, `ContextFreedOnce`, `CleansUp`, `DialogAnswered` | every kind of save, every order of extents, a fault that is noticed or not, a user who cancels at any point; the exceptions are named in the properties |
| `save_order` | `OffsetsNeedNoAdjusting` violated | records of two threads are copied in file order and indexed by session offsets |

`CleansUp` has two parts: the decode thread is paused while records are written and goes on
afterwards (`BarrierWhileSaving`), and the file is complete or gone, and complete when the
user was told so (`FileAfterwards`).  The properties name the cases in which the code does
not keep what its comments say (see "Also observed"), and hold in all others.

Bounds: up to three records of one or two units, in every order and of every choice of a
filter; copy units and CSV rounds of two, so that a rest, a whole number of rounds and
both occur; one fault.  Fairness: a queued work item runs; the user need not cancel.
`CHECK_DEADLOCK FALSE`: the work item ends.

## FilterIndex

The filter of a log: `MspScanFilterRecord` tests the records after
`LastScannedSequence` and appends the sequence numbers of those that match to the
filter file; `MspCopyRecordFiltered` reads an entry and copies that record.

| Variable | Code |
|---|---|
| `count` | `NumberOfRecords` of the index object |
| `attached`, `condition`, `file`, `eof`, `found`, `LastScanned` | `FilterFileObject`: its `FilterObject` as the set of sequence numbers it matches, file, `FileLength`, `NumberOfRecords`, `LastScannedSequence` |
| `wmap`, `rmap`, `rlen` | `MappingObject`, `MappingObject2` and its `FileLength` |
| `pc`, `number`, `end` | per thread: control point, `Number`, `Start + Step` |
| `asked`, `got` | `FilterSequence` and the `Sequence` read |
| `dialog` | the context of the progress dialog (`filterhint.c`) |

`Attach`, `Detach`, `Timer` and `CopyFiltered` are the window's entry points;
`BeginScan` and `ScanRecord` the scan, `StoreEntry`, `SlideWriteView` and
`ExtendFilterFile` are `MspWriteFilterIndex`; `ReadEntry`, `SlideReadView`,
`ReopenReadFile` and `CopyReturn` are `MspCopyRecordFiltered`; `WorkerRound` and
`WorkerNext` are `FilterScanWorkItem`, `Cancel`, `DialogTimer` and `DialogEnd` its
dialog.  Abstractions: the evaluation of a condition is membership in a set;
copying a record (the subject of `RecordReader`) finds it or fails; the two views
of one file show the same contents, as the operating system guarantees; `MappedVa`
and `FilterIndex` are one field (a union in the code).

| Run | Checks | Shows |
|---|---|---|
| `filter` | `TypeOK`, `FilterHoldsMatches`, `FilterUsedByOne`, `CopiedMatches`, `CopyEnds`, `EverythingScanned` | scans by timer and work thread over several views and an extended file, two conditions one after the other, one failing call; progress of copies and of the scan |

`FilterHoldsMatches` has two parts: the file is the matching sequences once each and
in order as long as no write failed (`FilterExact`), and no match is skipped even
then (`NothingLost`).

Bounds: six records, views of two entries and file increments of four make the
filter file slide at two entries and grow at the code's limit (half of the file,
since the limit divides by the size of another entry type); scan steps of two and
three make rounds with a remainder.  Two conditions show a filter replaced by
another.  Fairness: the scanning threads, the copies and the dialog's timer run;
the log window's timer has strong fairness, since other messages may make it
wait but do not stop it.  `CHECK_DEADLOCK FALSE`: a run ends when all records are
scanned and the user does nothing, or after a crash.

## SpinLock and Mutex

`BTR_SPINLOCK` is two words, the bit `Acquired` and the owner's `ThreadId`, written
one after the other.  One action per access: `BtrAcquireSpinLock` tests for
re-entry, tries the bit, and spins while it sees it set; then it stores its id
(the step between is a step of its own); `BtrReleaseSpinLock` clears the id, then
the bit.  `Terminate` ends a mortal thread anywhere, and `Reuse` gives its id to a new
one: the test for re-entry then takes the dead owner's word for its own.  `taker` and `orphan` are
history: who set the bit, and whether that thread was terminated.

| Run | Checks | Shows |
|---|---|---|
| `spinlock` | `TypeOK`, `ImplementsMutex`, `SomeoneEnters` | three ids, two of them mortal and reused: one thread is past the acquire; the two words implement the one-step lock |

`Mutex` is the lock as `SharedCache` takes it: a free lock is acquired in one step,
and is never free again when its owner died holding it.  `SomeoneEnters` is what a
test-and-set lock gives: of the threads that spin one gets in, unless they or the
holder are terminated; a single thread may starve, and no property says otherwise.
Bounds: `SpinCount` of 2 makes the inner loop end both ways; three deaths let an
id be reused after it was the owner's.  The system has no deadlock: every spinning
thread can go on.

## RuntimeStop

The runtime's four threads in the traced process.

| Variable | Code |
|---|---|
| `posted`, `complete`, `code`, `points`, `control` | the cached notifications and control blocks on the schedule thread's stack (`BtrAllocateCachedPacket`), which block a notification points to, and the local `Control` |
| `quantum`, `spc`, `requestor` | the tick counter modulo 4, all its tests look at; `BtrScheduleProcedure`; whose stop is handled |
| `requests`, `queue` | the schedule thread's queue, the queues of write and watch thread |
| `wpc`, `work`, `mpc` | the loops of `BtrWriteProcedure`, `BtrWatchProcedure` and `BtrMessageProcedure` |
| `broken` | history: workers that an exception took out of their loop |
| `freed` | history: cached notifications given to the heap, and in whose queue they were left |

`Timer`, `ScheduleScanLookaside` and `ScheduleScanStackTrace` are the three posts of a
tick, `ScheduleDeQueue` its poll for a stop, `ScheduleStop`, `WaitExits` and
`DestroyQueues` are `BtrScheduleStop` and what follows; `DeQueue`, `Handle`, `Exception`
and `RequestStop` the workers; `StopRuntime` the stop of the message thread by
request or by a broken pipe.  Abstractions: remote mode only (in local mode the
wait for three threads is given a null handle); the work itself is left out; a
worker's queue holds at most `MaxQueue` posts when the timer ticks, a bound.

| Run | Checks | Shows |
|---|---|---|
| `stop` | `TypeOK`, `CachedNeverFreed`, `StopCompletes`, `WorkGoesOn` | a stop that the control program asks for, or a broken pipe, ends in the unloading; only the queue of a worker that an exception ended leaves stack packets to the heap; work is posted again and again although the cache pairs its blocks wrongly and is used up |

Bounds: three cached packets are used up within two ticks (the code has ten,
used up likewise); two queued posts let both workers lag; two faults let an
exception and a second one, or a failed port, coincide.
Fairness: the schedule thread, the workers and the stop in progress run; the
control program is free to ask or not.  `CHECK_DEADLOCK FALSE`: the run ends when
the runtime is unloaded.

## ProbeCalls

One probed function: the threads that call it through its trap, their thread
objects, the probe's registration, and the unloading of the runtime.

| Variable | Code |
|---|---|
| `probe`, `references`, `patched` | the probe objects, `References`, the object the patch of the function leads to |
| `last` | the probe objects whose trap is the last one of its page |
| `object` | `BTR_THREAD`: the list it is in, exemption, its views (`mapped`), the end of its thread (`gone`) |
| `pc`, `at`, `frames` | per thread: where it is, in whose trap, `FrameList` |
| `tls`, `mine` | per thread: what its stack base holds (nothing, the null thread, the thread object, the exemption cookie), its object |
| `spc` | the schedule thread in `BtrUnloadRuntime` |
| `late` | the threads that began after `BtrSuspendProcess` last asked for the list of threads |
| `slipped` | history, see below |

`Begin` starts one of `NewThreads`.  `Call` ... `LeaveTrap` follow `BtrCallProcedure`: the
bypass for exempt threads, `BtrGetCurrentThread` and at the first call the allocation of
the object, its insertion in the list and the store to the stack base
(`AllocateThread`, `InsertThread`, `StoreThread`), the reference, the frame, the
function (which nests), the record, the return.  `Unwind` is an exception that leaves
the function (`__finally` of `BtrExecuteCall`).  `RemoveActive`, `QueueRundown`,
`SetExemptionCookie` and `SetCookie` are `BtrOnThreadDetach`, which stores the cookie
last: after `QueueRundown` the object may already be another thread's (`GaveBack`).
`Kill` is a thread terminated in the function.

`Register` and `Unregister` are the message thread, `ScanRundown` the watch thread,
`UnregisterProbes` ... `Unload` the schedule thread.  `Places` says where the program
counter of a suspended thread is found; `OutOfRuntime` and `OutOfTrap` are
`BtrIsExecutingRuntime` and `BtrIsExecutingTrap`, and like `BtrIsTrapPage` the latter
takes a thread in the last trap of a page for one outside (`InLastTrap`).
`BtrSuspendProcess` asks for the list of threads (`Snapshot`) and suspends those in it;
between two of them it allocates and may wait for ever for the heap's lock
(`SuspendBlocks`).  `UnregisterProbes` takes the patches back whether it could suspend
or not; `LookAgain` and `UnloadBlind` are the second suspending of `BtrUnloadRuntime`, whose
status nobody looks at: when it fails the list is empty, nobody is in it, and the
library goes.

What may be freed is decided by looking at suspended threads, and not every thread is
seen where it is.  The properties of `probes` are about the others: `slipped` records a
thread

* that was judged while it was inside a system call that the runtime made, which is
  seen outside the runtime (`probes_decommit`), or in the last trap of a page;
* that was in the runtime or a trap and not in the list of threads (`late`);
* that could not be opened or suspended when its object was tested, and so was
  taken for one without frames;
* that was building its object when the active list was scanned, or detached from
  a list of the schedule thread;
* that ran while the patch was written (`Torn`).

It is no excuse for anything else: a thread is added at these judgements only.

Abstractions: suspending the threads of the list is one step (between the first and the
last of them the others only go on), and when it fails nothing is changed but where
the status is ignored; calls of probed functions that the runtime itself makes (all
bypassed) and the exempted address ranges are left out; the record's write is one
step (its inside is `SharedCache`); threads are killed only outside the runtime, and
are not followed once the library is unloaded, with or without having looked, or the
schedule thread is blocked; a thread object is named by its place in the lookaside
pool and reused.

| Run | Checks | Shows |
|---|---|---|
| `probes` | `TypeOK`, `NoUseAfterFree`, `ObjectsHeld`, `UnloadedIsQuiet`, `UnloadCompletes` | nothing that a thread which could be seen is in or will return through is freed; the unloading waits for the frames and ends: the library is unloaded, or unloaded without having looked, or the schedule thread is blocked |
| `probes_decommit` | `SafeToDecommit` violated | the three conditions of `BtrUnregisterProbe` are met while a thread in its first call is in a system call, before it counted its reference |

Bounds: two threads, one of which begins later, can detach, die or start while the
other is judged; two nested calls give a frame below a frame; one fault is a failed
write, allocation or suspending, an exception or a killed thread (1.6 million states).
More registrations, threads and faults are left to the proofs of the safety properties.
Fairness: runtime code goes on and the probed function returns (weak fairness of
`Runs`), the schedule thread runs.  `CHECK_DEADLOCK FALSE`: the run ends with the
unloading, or with every thread gone.

## ControlCommands

The control program's commands on one target process.

| Variable | Code |
|---|---|
| `command`, `waiting`, `issued`, `answer` | the modal dialog: one command at a time, and its callback |
| `cpc`, `listed`, `state`, `queueObject`, `portObject` | `MspCommandProcedure` and `MSP_PROCESS`; whose queue and port the process object has |
| `event`, `result`, `held` | `CompleteEvent`, `Control->Result`, the control packets allocated |
| `tpc`, `current`, `queue`, `isOpen`, `pipe` | per session thread (`MspProcessProcedure`): where it is, its packet, queue and port |
| `target`, `runtime` | the traced process and the runtime in it |
| `phase` | `MspUninitialize` and `MspStopAllProcess` |
| `applied`, `overlap` | history: the runtime was given the probes of the command; a session began before the last had ended |

The thread of the session that command n starts is called n.  `QueueUserCommand` is
the dialog, `StopCommand` ... `CommandDone` the command thread, `CreateQueue` ... `CloseQueue`
the session's thread with `MspOnControl` and the exchange over the pipe, `Serve`,
`Unload` and `ConnectionBreaks` the runtime, `TargetExits` the process, `PostTimerPacket`
the timer, `Uninitialize` ... `StopTimesOut` the exit.  Abstractions: the start-debug
command, the probe tables and packet bodies are left out; the wait of one second
at the exit ends at any moment.

| Run | Checks | Shows |
|---|---|---|
| `commands` | `TypeOK`, `PacketsAllocated`, `OkMeansApplied`, `Answered` | packets outlive their use; success means that the runtime was given the probes; a command is answered but in three named cases (`Stuck`) |
| `commands_unanswered` | `EveryCommandAnswered` violated | a process probed again while its last session closes loses the new queue and port, and the dialog waits for ever |

Bounds: four commands give probe, stop, probe again and stop; one timer packet
comes between any two; two faults combine a failing call with the target's exit.
Fairness: the threads run and the runtime answers; user, timer and target are
free.  `CHECK_DEADLOCK FALSE`: the program exits, or the dialog waits for ever.

## Proofs

Every safety property that a passing run checks is proved for all values of the
constants, and so are parts of them that have no run of their own
(`ExtensionsExclusive`, `PublishedLengthsBacked`, `CountedAreCommitted`,
`CountedWithinLengths`, `MutualExclusion`, `OneReader`, `BarrierWhileSaving`,
`FileAfterwards`).  `SharedCacheProofs` first proves that the types are kept, one step
per action and one leaf per group of variables, and then, for every set of
writers and all sizes that satisfy `ThreadsAssumption` and `SizesAssumption`,

| Theorem | Property |
|---|---|
| `TypeCorrect` | `TypeOK` |
| `ExtensionsAreExclusive` | `ExtensionsExclusive` |
| `LengthsInFlightAreBacked` | `LengthsInFlight` |
| `LengthsAreBacked` | `PublishedLengthsBacked` |
| `RecordsAreDisjoint` | `RecordsDisjoint` |
| `CountedEntriesAreCommitted` | `CountedAreCommitted` |

from the inductive invariant `SafetyInv` (`Safety`).  `PublishedLengthsBacked` alone
is not inductive: a writer publishes a length it computed from one read before
the lock.  `LengthsInFlight` adds what holds in between -- such a length is not
above the published one until the thread itself has extended the file, and then
exactly the holder of the lock has a longer one -- and needs `ExtensionsExclusive`.
`RecordsDisjoint` is inductive with the types: a claim succeeds only when the valid
length has not moved, and begins where everything placed so far ends.
`CountedAreCommitted` holds since no step clears `Committed`, wrap or no wrap.
The proofs cover termination of writers, failing calls, and the two unassigned
values, whatever they hold.

The theorems about the index file and the refinement assume `NoWrap`
(`MaxRecords` is at most the two moduli of sequence numbers and entry locations)
and, where the 36-bit offset matters, that the valid length stays below it
(`[]OffsetsFit`): with a wrap they are false.

| Theorem | Property | Strengthening |
|---|---|---|
| `CommittedEntriesAreWritten`, `CommittedEntriesStay` | `CommittedIsWritten`, `CommittedImmutable` | `CommitInv`: a sequence number in hand is below `Sequence` and no other writer's, an entry that is filled names its writer's record |
| `CountedEntriesAreWithinLengths`, `CountedEntriesAreReadable` | `CountedWithinLengths`, `CountedAreReadable` | `CountInv`: the published index length is whole entries and the index thread's view lies in the file |
| `CacheImplementsLog` | `ImplementsLog` | a case per action: `FillEntry`'s commit and `PublishCount` are steps of `RecordLog`, `AcquireSequence` a claim, all others stutter |

The others hold for every value of the constants:

| Module | Theorem | Property | Argument |
|---|---|---|---|
| `SpinLockProofs` | `SpinLockTypes`, `SpinLockExcludes`, `SpinLockImplements` | `TypeOK`, `MutualExclusion`, `ImplementsMutex` | the bit is set exactly when there is a taker, a thread past the bit is the taker, and `ThreadId` never names anybody else: who skips the bit has the id that set it |
| `RuntimeStopProofs` | `RuntimeTypes`, `CachedPacketsStay` | `TypeOK`, `CachedNeverFreed` | a worker without an exception asks for no stop, so one is posted to it whoever asks, and that is the last in its queue: what it leaves when it ends is nothing, whatever else failed; the threads' ends come before `DestroyQueues` |
| `ProbeCallsProofs` | `FramesKeepObjects`, `UnloadFindsQuiet` | `ObjectsHeld`, `UnloadedIsQuiet` | an object has one owner at most, but for threads that gave it back (`GaveBack`) and own nothing; what the stack base holds says in which list it can be; a thread that was judged complete has no frame and, with the runtime unloading, makes none |
| | `CallsTypes`, `ProbesInUseStay` | `TypeOK`, `NoUseAfterFree` | `References` is at least the number of frames and of calls in the runtime that hold the probe, counted as a finite set, so zero and the places of the threads leave no holder; exceptions and killed threads only make it larger |

In `ProbeCallsProofs` a lemma per action gives its effect, and frame
lemmas (`ThreadStep`, `ObjectStep`, `PlainStep`, `UnownedStep`) carry what it leaves alone.

The inductive invariants of the control side and of the readers were checked by
TLC with the bounds of their runs before they were proved:

| Module | Theorem | Property | Inductive invariant |
|---|---|---|---|
| `ControlCommandsProofs` | `ControlTypes` | `TypeOK` | the types, with what a thread that has not begun cannot have |
| | `PacketsStayAllocated`, `OkIsApplied` | `PacketsAllocated`, `OkMeansApplied` | `Orderly`, as long as no session overlapped the one before: one live thread, whose queue and port the process object has (`OneSession`); one control packet, of the kind that is waited for, with `CompleteEvent` reset (`OnePacket`); the answer on the pipe is to the packet in hand (`Answers`); a thread that handles packets has a started process (`Served`) |
| `FilterIndexProofs` | `FilterTypes` | `TypeOK` | `Budget`: an entry per record passed, and one pass over the log per fault, so the file has a place for the next |
| | `FilterKeepsMatches` | `FilterHoldsMatches` | the view to write through starts where its labels say, and without a section it is full (`WriteView`); the matches below the position are stored and nothing else (`Contents`); without faults what is stored ascends and is below the position (`Ordered`) |
| | `FilterTakesTurns` | `FilterUsedByOne` | `Turns`: with the dialog open the window is idle or waits, without it the work thread has ended |
| | `CopiesMatch` | `CopiedMatches` | `Reading`: labels only run ahead of the view, so what is read is an earlier entry, hence a match |
| `RecordReaderProofs` | `ReaderTypes` | `TypeOK` | the log's records have sizes that records have and lie in the file; the index lengths are whole views |
| | `CopiesTheRecord` | `CopiesAskedRecord` | a reader whose call overlapped no other is alone (`OthersIdle`); of views that no overlapping calls moved, the index view starts at its label, is not mapped or is about to be labelled (`IndexView`), and the data view shows what its labels say or nothing (`DataLabels`); as long as nothing failed, an unmapped view has a reader that will map another (`Mapped`), and so a reader that begins alone finds it mapped (`EntryView`); what is known of the data file covers the record (`DataView`) |
| | `OneReaderOfReports` | `OneReader` | `Dialog`: in stall mode the window asks for nothing, and the work item has a record left to scan |
| `SessionSaveProofs` | `SaveTypes` | `TypeOK` | the types, an index entry per record copied |
| | `SavedRecordsAreHeld` | `SavesTheRecords` | when extents are in index order they lie end to end (`EndToEnd`), and the file pointer is where the next one starts (`Pointers`); what was copied is a piece at the place its entry names (`Copied`); both up to the first unnoticed failure, before which an entry's length was never a former one's (`lag = 0`) |
| | `BarrierIsCleared`, `FileIsThereAfterwards`, `WorkItemCleansUp` | `BarrierWhileSaving`, `FileAfterwards`, `CleansUp` | where the work item is, or will be when its call returns (`At`), says what there is of the file and of the barrier (`Phases`), and what a call announces is there (`Calls`, `Announced`) |
| | `ContextIsFreedOnce` | `ContextFreedOnce` | `Owner`: until the context is freed a closed dialog is in its state field or in the call that announces 100 percent, and a work item that will call no more leaves an open dialog that knows of the failure; `Freed`: without faults the free is the last call's |

`PacketsAllocated` and `OkMeansApplied` are not inductive because all packets share
one event: what must be known is that no packet but the expected one can set it.
`FilterHoldsMatches` is not, because an entry could be stored at a place the view
does not show; `CopiesAskedRecord` is not, because the labels of a view that
was lost stay behind.  For `CopiesTheRecord` an extent that was taken lies before
the valid length, which only grows (`SessionGrows`, `SessionLeaves`), so the order in
which extents are counted does not matter.  `ContextFreedOnce` is not inductive since
nothing in it says who the owner is while neither side has freed the context.

Only model-checked: liveness (`PrefixCounted`, `WriterReturns`, `StopCompletes`, `CopyReturns`,
`CopyEnds`, `EverythingScanned`, `SomeoneEnters`, `WorkGoesOn`, `UnloadCompletes`,
`Answered`, `DialogAnswered`), which is beyond the prover, and the violations of the next section,
which are counterexamples.

## Findings

| Run | What a comment says | What the code does |
|---|---|---|
| `commands_unanswered` | "when the command is completed, user get notification via callback function" | the ending session closes whatever queue and port the process object has (`dprobe/mspprocess.c:126`) |
| `probes_decommit` | "if all three conditions are met, it's safe to decommit" (`btr/probe.c:665`) | the reference is counted after the allocation of the thread object, which makes system calls |
| `save_order` | "this obtain benefit that we don't need to adjust the record offset when we read the record in report mode" (`dprobe/mspdtl.c:2770`) | the offset is computed and the file pointer not set (`dprobe/mspdtl.c:3557`), so that records are stored in file order, and those behind the last one are cut off |

## Also observed

Differences seen while modelling that have no run of their own.  Those inside a module
are modelled as the code behaves, and the passing runs reach them or the properties
name them as exceptions.  Notes from reading only are: the wrap of locations (no run lets
them wrap), the second close of a handle, whatever leaks, the division by zero, the
counters and `BufferBusy`, the filter-control request, the statuses that the control side
ignores, `ActiveProcessCount`, local mode, and the stack traces with their decode thread.

Shared cache, index thread, lock:

* The length recorded with a section is read after the section was created
  (`btr/cache.c:158`, against the comment at 392); an extension by another thread in
  between makes it too long, the view cannot be mapped and the record is lost.
* `ExtendedLength` is used unassigned when another thread has extended the index
  file (`btr/cache.c:590`), `Status` likewise (`dprobe/mspdtl.c:1825`).
* In a 32-bit build the entry's location wraps (`btr/queue.c:78`); with an
  `EntryModulus` below the maximum of entries `CommittedImmutable` fails.
* The stated maximum of the data file (`btr/btr.h:664`) is never compared with its
  length, and the index thread (`dprobe/mspdtl.c:1816`) extends the index file
  without the writers' maximum check.
* After a failed extension of the index file the thread keeps the value of the handle
  it closed (`btr/cache.c:506`); its next record closes it again.
* A failed write of an inner call leaves the thread exempt only until the end of an outer
  call, whose own record is written and clears the flag (`btr/call.c:907`).
* A process terminated inside an extension leaves the lock taken, and
  `MspUninitialize` waits for the index thread for ever (`dprobe/mspdtl.c:481`).

Saving (the properties of `save` name the first four and the ignored statuses as
exceptions):

* A report whose index is a whole number of copy units announces 100 percent inside the
  loop (`dprobe/mspdtl.c:3632`) and then calls back twice more with the freed context,
  against "If it's complete, callback won't touch context object anymore"
  (`dprobe/savedlg.c:227`).
* `MspWriteCsvFiltered` ends without the call that announces 100 percent
  (`dprobe/mspdtl.c:2620`): the dialog stays open, and a user who closes it leaves the
  context "to be freed by callback" (`dprobe/savedlg.c:183`), which comes no more.
* A whole report that is cancelled returns without clearing the barrier that pauses the
  decode thread (`dprobe/mspdtl.c:3582`).
* In a CSV file of a whole number of rounds the result of the call for 100 percent is
  taken for cancelling, and the file is deleted (`dprobe/mspdtl.c:2286`).
* The decode thread, too, reads the data file from start to end by the lengths of the
  index (`dprobe/stktrace.c:1445`), which fits the records of one thread only.
* A CSV file that cannot be opened, and a CSV file that fails in its first round, tell the
  dialog nothing, or a percentage that is not initialized (`dprobe/mspdtl.c:2317`).
* `SaveCallback` reads the context after the dialog was told that saving failed; a user
  who closes it at once has freed it (`dprobe/savedlg.c:275`).
* `MspReplicateRecord` ignores the status of its reads and writes (`dprobe/mspdtl.c:3550`
  to 3649), `MspWriteCsvRound` that of its reads (`dprobe/mspdtl.c:2358`), and
  `MspWriteDtlWorkItem` that of writing the header (`dprobe/mspdtl.c:2775`): a file with
  records missing is announced as complete.
* `MspReplicateRecord` leaks the index file's handle when it is cancelled or the index has
  no rest.

Readers and filters:

* The view of a filtered copy is mapped at a rounded-down offset and labelled with the
  unrounded sequence (`dprobe/mspdtl.c:906`), so that the window may show another
  matching record than the one asked for; `CopiedMatches` is what is left.
* A reader that lags behind an extension asks for a view its file does not have
  yet, and its section stays closed (`dprobe/mspdtl.c:1085`).
* The work item that saves a live session (`dprobe/mspdtl.c:2682`, `3268`) moves the
  views of a window that is not in stall mode, and the two may leave a view with the
  labels of another (the histories `shared` and `mixed` above);
  cancelling the counting dialog ends stall mode but not its work item
  (`dprobe/counterhint.c:115`).
* A failed filter write returns without moving `LastScannedSequence`
  (`dprobe/mspdtl.c:1401`), so the next scan appends again the matches that the
  failed one had already written.
* The progress dialog of a filter over an empty log divides by zero
  (`dprobe/filterhint.c:150`).  `MinimumDuration` starts at zero, so a minimum is never
  recorded; `BufferBusy` is tested and never set.

Control side:

* A filter-control request is acknowledged twice (`btr/ipc.c:657`), so every later
  answer would belong to the request before it; the control side never sends one
  (`MspFilterControl` is not implemented), and `MspStopProcess` has no caller either.
* `MspOnStart` ignores the status of its acknowledgement; `MspCommitLargeRequest`
  goes on after a failed exchange; `ActiveProcessCount` never falls on the path in
  use; an early return of `MspOnStopCommand` keeps its packet, and re-creating a
  session the old thread handle.
* `MspStopAllProcess` does not wait for the threads it did not terminate before the
  heap is destroyed.  When sessions overlap, the old thread takes packets of the
  new one.

Runtime:

* "If any exception occurs, we need request to stop runtime" (`btr/queue.c:225`): the stop
  waits for the message thread, which is in a read that nobody ends (`btr/sched.c:184`), so
  that `StopCompletes` is about the other two causes of a stop only.
* The cached packets are mixed up: a control block is marked free while its
  notification is queued, and a later post overwrites its code (`btr/sched.c`).
  After a worker's exception `BtrDestroyQueue` frees packets of the schedule thread's stack.
  In local mode the wait for three threads has a null handle and fails at
  once, and `btr/sched.c:204` clears the entry after the loop's last.
* An exception or a thread's end inside a probed call leaves the reference counted, and
  `BtrUnregisterProbe` tries for ever.
* `BtrSuspendProcess` allocates (`btr/thread.c:408`) while suspended threads may hold the
  heap's lock: the schedule thread is then blocked for ever (`SuspendBlocks`).
* The status of suspending is ignored where the patches are taken back
  (`btr/probe.c:725`) and before the library is unloaded (`btr/probe.c:598`): it goes
  without anybody having been looked at (`UnloadBlind`).
* The unloading scans the active list and not the rundown queue; a thread that
  still builds its object is missed, although the comment says that "new thread
  don't get a chance to enter runtime"; a detach during the unloading removes entries of lists
  that belong to the schedule thread, and may close a handle twice.
* The comment in `btr/btr.c` says that the exemption cookie must be set first, the
  code sets it last (`btr/btr.c:347`): until then the stack base names an object that
  another thread may have taken (`SetExemptionCookie`).
* `BtrIsTrapPage` leaves out the last trap of a page (`btr/trap.c:130`): a thread in it
  is not waited for (`InLastTrap`).
* An entry of the stack trace database is returned after its bucket's lock was
  released (`btr/stktrace.c:247`).

## Not modelled

`PROJECT.json` lists every component with its status.  Still to come: the stack
trace database, the bitmaps and look-aside heaps, the counters.  Left out for good: code
injection and the debugger (memory of another process through system calls),
symbol and stack display, session files and database, the user interface, the
argument decoders of `src/flt`, the earlier control side (`dtl.c`, `psp.c`,
`bsp.c`, `rsp.c`), instruction decoding, and the vendored SQLite.
