------------------------------ MODULE ProbeCalls ------------------------------
(***************************************************************************)
(* A probe of one function in a traced process (btr/call.c, probe.c,        *)
(* thread.c, btr.c): threads that call the function through its trap, the   *)
(* thread objects they get at their first call, the message thread that     *)
(* registers and unregisters the probe, the watch thread that takes back    *)
(* the objects of threads that exited inside a call, and the schedule       *)
(* thread that unregisters everything and unloads the runtime.              *)
(*                                                                          *)
(* Who may free what is decided from outside: by the probe's reference      *)
(* count, by the frame list of a thread object and by where a suspended     *)
(* thread's program counter is.  Not every thread is seen where it is: one  *)
(* that the runtime sent into a system call is seen in the system, the last *)
(* trap of a page is not taken for a trap, a thread that began after the    *)
(* list of threads was made is not suspended, and a thread that cannot be   *)
(* opened is taken for one without frames.  slipped records the threads     *)
(* whose state was judged at such a moment.                                 *)
(***************************************************************************)
EXTENDS Integers, FiniteSets, SequencesExt

CONSTANTS
  Threads,     \* threads of the traced program
  NewThreads,  \* those that begin when the runtime is already loaded
  MaxProbes,   \* bound: registrations of the probe
  MaxDepth,    \* bound: nested calls of the probed function
  MaxFaults    \* bound: failed system calls and writes, unwound and killed threads

ASSUME CallsAssumption ==
  /\ IsFiniteSet(Threads) /\ NewThreads \subseteq Threads
  /\ MaxProbes \in Nat /\ MaxDepth \in Nat /\ MaxFaults \in Nat

Probes  == 1 .. MaxProbes
Objects == 1 .. Cardinality(Threads)   \* a thread needs one at most

VARIABLES
  probe, references,   \* per probe object: unused, on, off or freed; References
  patched,             \* the probe object the function's patch leads to, or 0
  last,                \* the probe objects whose trap is the last of its page
  object,              \* per thread object: BTR_THREAD and the list it is in
  pc, at, frames,      \* per thread: where it is, in whose trap, FrameList
  tls, mine,           \* per thread: what its stack base holds, its thread object
  spc,                 \* the schedule thread; BtrUnloading is set unless it is run
  late,                \* threads begun since the last list of threads was made
  slipped,             \* history
  faults

probeVars  == <<probe, references, patched, last>>
threadVars == <<pc, at, frames, tls, mine>>
vars == <<probeVars, object, threadVars, spc, late, slipped, faults>>

NewObject == [list |-> "unused", exempt |-> FALSE,
              mapped |-> FALSE, gone |-> FALSE]
Pooled    == [NewObject EXCEPT !.list = "pool"]    \* closed, and in BtrThreadLookaside

Init ==
  /\ probe = [p \in Probes |-> "unused"] /\ references = [p \in Probes |-> 0] /\ patched = 0
  /\ last = {} /\ late = {}
  /\ object = [o \in Objects |-> NewObject]
  /\ pc = [t \in Threads |-> IF t \in NewThreads THEN "new" ELSE "app"]
  /\ at = [t \in Threads |-> 0]
  /\ frames = [t \in Threads |-> << >>]
  /\ tls = [t \in Threads |-> "none"] /\ mine = [t \in Threads |-> 0]
  /\ spc = "run" /\ slipped = {} /\ faults = 0

Unloading == spc # "run"
Fault == faults < MaxFaults /\ faults' = faults + 1
-----------------------------------------------------------------------------
(* A call of the probed function.                                           *)
Goes(t, from, to) == pc[t] = from /\ pc' = [pc EXCEPT ![t] = to]
StaysKnown == UNCHANGED <<spc, late, slipped>>

\* once the patches are taken back a new thread finds no way into a trap
Begin(t) ==
  /\ Goes(t, "new", "app")
  /\ late' = IF spc \in {"run", "stopping"} THEN late \cup {t} ELSE late
  /\ UNCHANGED <<probeVars, object, at, frames, tls, mine, spc, slipped, faults>>

Call(t) ==
  /\ Goes(t, "app", "stub") /\ patched # 0 /\ Len(frames[t]) < MaxDepth
  /\ at' = [at EXCEPT ![t] = patched]
  /\ StaysKnown /\ UNCHANGED <<probeVars, object, frames, tls, mine, faults>>

EnterProcedure(t) ==
  /\ Goes(t, "stub", "check")
  /\ StaysKnown /\ UNCHANGED <<probeVars, object, at, frames, tls, mine, faults>>

Bypassed(t) == Unloading \/ tls[t] \in {"cookie", "null"}

\* to the copied code in the trap and from there to the function, with no frame
ExemptCall(t) ==
  /\ \/ Goes(t, "check", "leave") /\ Bypassed(t)
     \/ Goes(t, "known", "leave") /\ object[mine[t]].exempt
  /\ StaysKnown /\ UNCHANGED <<probeVars, object, at, frames, tls, mine, faults>>

\* BtrGetCurrentThread; the null thread protects the allocation
FindThread(t) ==
  /\ ~Bypassed(t)
  /\ \/ tls[t] = "object" /\ Goes(t, "check", "known") /\ UNCHANGED tls
     \/ tls[t] = "none" /\ Goes(t, "check", "build") /\ tls' = [tls EXCEPT ![t] = "null"]
  /\ StaysKnown /\ UNCHANGED <<probeVars, object, at, frames, mine, faults>>

Free(o) == object[o].list \in {"unused", "pool"}

\* the object is taken from the pool and gets its handle, views and buffer
AllocateThread(t) ==
  /\ Goes(t, "build", "insert")
  /\ \E failed \in BOOLEAN : \E o \in Objects :
       /\ Free(o) /\ \A p \in Objects : p < o => ~Free(p)
       /\ object' = [object EXCEPT ![o] =
            [NewObject EXCEPT !.list = "none", !.exempt = failed, !.mapped = ~failed]]
       /\ mine' = [mine EXCEPT ![t] = o]
       /\ IF failed THEN Fault ELSE UNCHANGED faults
  /\ StaysKnown /\ UNCHANGED <<probeVars, at, frames, tls>>

\* the schedule thread holds BtrThreadLock in "scan"
InsertThread(t) ==
  /\ Goes(t, "insert", "store") /\ spc # "scan"
  /\ object' = [object EXCEPT ![mine[t]].list = "active"]
  /\ StaysKnown /\ UNCHANGED <<probeVars, at, frames, tls, mine, faults>>

StoreThread(t) ==
  /\ Goes(t, "store", "known") /\ tls' = [tls EXCEPT ![t] = "object"]
  /\ StaysKnown /\ UNCHANGED <<probeVars, object, at, frames, mine, faults>>

CountReferenceUncounted(t) ==
  /\ Goes(t, "known", "capture") /\ ~object[mine[t]].exempt
  /\ object' = [object EXCEPT ![mine[t]].exempt = TRUE]
  /\ StaysKnown /\ UNCHANGED <<probeVars, at, frames, tls, mine, faults>>

CountReference(t) ==
  /\ Goes(t, "known", "capture") /\ ~object[mine[t]].exempt
  /\ object' = [object EXCEPT ![mine[t]].exempt = TRUE]
  /\ references' = [references EXCEPT ![at[t]] = @ + 1]
  /\ StaysKnown /\ UNCHANGED <<probe, patched, last, at, frames, tls, mine, faults>>

\* the stack trace is captured; the function runs with the exemption cleared
PushFrame(t) ==
  /\ Goes(t, "capture", "app")
  /\ frames' = [frames EXCEPT ![t] = Append(@, at[t])] /\ at' = [at EXCEPT ![t] = 0]
  /\ object' = [object EXCEPT ![mine[t]].exempt = FALSE]
  /\ StaysKnown /\ UNCHANGED <<probeVars, tls, mine, faults>>

PopFrame(t) ==
  /\ Goes(t, "app", "write") /\ frames[t] # << >>
  /\ at' = [at EXCEPT ![t] = Last(frames[t])] /\ frames' = [frames EXCEPT ![t] = Front(@)]
  /\ object' = [object EXCEPT ![mine[t]].exempt = TRUE]
  /\ StaysKnown /\ UNCHANGED <<probeVars, tls, mine, faults>>

WriteRecord(t) ==
  /\ Goes(t, "write", "leave")
  /\ references' = [references EXCEPT ![at[t]] = @ - 1]
  /\ \E failed \in BOOLEAN :
       /\ IF failed THEN Fault ELSE UNCHANGED faults
       /\ object' = [object EXCEPT ![mine[t]].exempt = failed \/ object[mine[t]].list = "rundown"]
  /\ StaysKnown /\ UNCHANGED <<probe, patched, last, at, frames, tls, mine>>

LeaveTrap(t) ==
  /\ Goes(t, "leave", "app") /\ at' = [at EXCEPT ![t] = 0]
  /\ StaysKnown /\ UNCHANGED <<probeVars, object, frames, tls, mine, faults>>

\* an exception leaves the function: the frame is popped in the __finally of
\* BtrExecuteCall, the rest of BtrCallProcedure is skipped
Unwind(t) ==
  /\ pc[t] = "app" /\ frames[t] # << >> /\ Fault
  /\ frames' = [frames EXCEPT ![t] = Front(@)]
  /\ StaysKnown /\ UNCHANGED <<probeVars, object, pc, at, tls, mine>>

InCall(t) ==
  \/ EnterProcedure(t) \/ ExemptCall(t) \/ FindThread(t)
  \/ AllocateThread(t) \/ InsertThread(t) \/ StoreThread(t)
  \/ CountReference(t) \/ PushFrame(t) \/ WriteRecord(t) \/ LeaveTrap(t)
-----------------------------------------------------------------------------
(* The end of a thread: BtrOnThreadDetach, then the thread's last steps,    *)
(* in which it may still call and return; or it is killed.                  *)
RemoveActive(t) ==
  /\ Goes(t, "app", "detach") /\ tls[t] = "object" /\ spc # "scan"
  /\ object' = [object EXCEPT ![mine[t]].exempt = TRUE, ![mine[t]].list = "none"]
  \* from a list of the schedule thread it is removed without a lock
  /\ slipped' = IF object[mine[t]].list = "active" THEN slipped ELSE slipped \cup {t}
  /\ UNCHANGED <<probeVars, at, frames, tls, mine, spc, late, faults>>

\* the object goes to the pool, or with frames to the rundown queue
QueueRundown(t) ==
  /\ Goes(t, "detach", "cookie")
  /\ object' = [object EXCEPT ![mine[t]] =
       IF frames[t] = << >> THEN Pooled ELSE [@ EXCEPT !.list = "rundown"]]
  /\ StaysKnown /\ UNCHANGED <<probeVars, at, frames, tls, mine, faults>>

\* until the cookie is stored the stack base names an object given back
SetExemptionCookie(t) ==
  /\ Goes(t, "cookie", "app") /\ tls' = [tls EXCEPT ![t] = "cookie"]
  /\ mine' = [mine EXCEPT ![t] = IF frames[t] = << >> THEN 0 ELSE @]
  /\ StaysKnown /\ UNCHANGED <<probeVars, object, at, frames, faults>>

\* no thread object, or the null thread
SetCookie(t) ==
  /\ pc[t] = "app" /\ tls[t] \in {"none", "null"}
  /\ tls' = [tls EXCEPT ![t] = "cookie"]
  /\ StaysKnown /\ UNCHANGED <<probeVars, object, pc, at, frames, mine, faults>>

Ends(t) ==
  /\ Goes(t, "app", "gone")
  /\ object' = IF mine[t] = 0 THEN object ELSE [object EXCEPT ![mine[t]].gone = TRUE]
  /\ frames' = [frames EXCEPT ![t] = << >>] /\ mine' = [mine EXCEPT ![t] = 0]
  /\ tls' = [tls EXCEPT ![t] = "none"]    \* the stack goes with the thread
  /\ StaysKnown /\ UNCHANGED <<probeVars, at>>

Terminate(t) == Ends(t) /\ tls[t] = "cookie" /\ UNCHANGED faults
Kill(t)      == Ends(t) /\ Fault

-----------------------------------------------------------------------------
(* Where the program counter of a suspended thread may be found.            *)
Places(t) ==
  CASE pc[t] \in {"new", "app", "gone"}          -> {"app"}
    [] pc[t] \in {"stub", "leave"}              -> {"trap"}
    [] pc[t] \in {"check", "known", "store", "cookie"} -> {"runtime"}
    [] OTHER                                    -> {"runtime", "system"}

\* a trap page ends for BtrIsTrapPage where its last trap begins
InLastTrap(t)   == Places(t) = {"trap"} /\ at[t] \in last
InSystem(t)     == "system" \in Places(t)
OutOfRuntime(t) == Places(t) # {"runtime"}
OutOfTrap(t)    == Places(t) # {"trap"} \/ InLastTrap(t)

\* BtrSuspendProcess asks for the list of threads and suspends those in it
Snapshot ==
  /\ late # {} /\ late' = {}
  /\ UNCHANGED <<probeVars, object, threadVars, spc, slipped, faults>>

AllOut == \A t \in Threads \ late : OutOfRuntime(t) /\ OutOfTrap(t)

\* what the list of contexts does not tell of a thread in the runtime or a trap
Unseen(t) == InSystem(t) \/ InLastTrap(t) \/ (t \in late /\ Places(t) # {"app"})

\* threads that run while the patch is written may fetch half of it
Torn(running) == {t \in running : pc[t] = "app"}

(* The message thread.  When the suspending fails it changes nothing.       *)
Register ==
  /\ spc \in {"run", "stopping"} /\ patched = 0
  /\ \E p \in Probes :
       /\ probe[p] = "unused" /\ patched' = p
       /\ probe' = [probe EXCEPT ![p] = "on"] /\ last' \in {last, last \cup {p}}
  /\ slipped' = slipped \cup Torn(late)
  /\ UNCHANGED <<references, object, threadVars, spc, late, faults>>

Unpatch ==
  /\ slipped' = slipped \cup Torn(late) \cup {t \in Threads : at[t] = patched /\ Unseen(t)}
  /\ probe' = [probe EXCEPT ![patched] = "freed"] /\ patched' = 0
  /\ UNCHANGED <<references, last, object, threadVars, spc, late, faults>>

UnregisterInTrap ==
  /\ spc \in {"run", "stopping"} /\ patched # 0 /\ references[patched] = 0
  /\ \A t \in Threads \ late : OutOfRuntime(t)
  /\ Unpatch

\* BtrUnregisterProbe once its three conditions are met
Unregister ==
  /\ spc \in {"run", "stopping"} /\ patched # 0 /\ references[patched] = 0
  /\ AllOut /\ Unpatch

ScanRundownEarly ==
  /\ spc \in {"run", "stopping"}
  /\ \E o \in Objects :
       /\ object[o].list = "rundown"
       /\ object' = [object EXCEPT ![o] = Pooled]
  /\ StaysKnown /\ UNCHANGED <<probeVars, threadVars, faults>>

\* the watch thread
ScanRundown ==
  /\ spc \in {"run", "stopping"}
  /\ \E o \in Objects :
       /\ object[o].list = "rundown" /\ object[o].gone
       /\ object' = [object EXCEPT ![o] = Pooled]
  /\ StaysKnown /\ UNCHANGED <<probeVars, threadVars, faults>>
-----------------------------------------------------------------------------
(* The schedule thread.                                                     *)
ScheduleStop ==
  /\ spc = "run" /\ spc' = "stopping"
  /\ UNCHANGED <<probeVars, object, threadVars, late, slipped, faults>>

\* BtrSuspendProcess allocates between two suspensions and waits for ever for a
\* heap lock that a suspended thread holds: one of the program, or one of the
\* runtime's own while these run.
\* bound: the threads are not followed from there; none is judged any more
SuspendBlocks ==
  /\ \/ spc \in {"run", "stopping"}
     \/ spc \in {"quiesce", "again"} /\ \E t \in Threads : pc[t] \in {"build", "detach"}
  /\ spc' = "blocked"
  /\ UNCHANGED <<probeVars, object, threadVars, late, slipped, faults>>

\* The runtime's threads have ended.  The patches are taken back whether the
\* threads could be suspended or not, and the probe objects are kept.
UnregisterProbes ==
  /\ spc = "stopping" /\ spc' = "scan"
  /\ probe' = [p \in Probes |-> IF p = patched THEN "off" ELSE probe[p]] /\ patched' = 0
  /\ \/ slipped' = slipped \cup Torn(late) /\ UNCHANGED faults
     \/ slipped' = slipped \cup Torn(Threads) /\ Fault
  /\ late' = {} /\ UNCHANGED <<references, last, object, threadVars>>

Owner(o) == CHOOSE t \in Threads : mine[t] = o /\ pc[t] # "cookie"

\* BtrIsPendingFrameExist looks at a thread that is not in the runtime; one that
\* cannot be opened or suspended has no frame for it
Test(o) ==
  LET t == Owner(o) IN
    \/ /\ OutOfRuntime(t)
       /\ object' = [object EXCEPT ![o].list = IF frames[t] # << >> THEN "pending" ELSE "complete"]
       /\ slipped' = IF InSystem(t) THEN slipped \cup {t} ELSE slipped
       /\ UNCHANGED faults
    \/ /\ object' = [object EXCEPT ![o].list = "complete"]
       /\ slipped' = slipped \cup {t} /\ Fault

ScanPending ==
  /\ spc = "scan"
  /\ \E o \in Objects :
       /\ object[o].list = "active"
       /\ IF object[o].gone
          THEN /\ object' = [object EXCEPT ![o].mapped = FALSE, ![o].list = "closed"]
               /\ UNCHANGED <<slipped, faults>>
          ELSE Test(o)
  /\ UNCHANGED <<probeVars, threadVars, spc, late>>

None(list) == \A o \in Objects : object[o].list # list

\* a thread object that is being built is not in the list that was scanned
EndScan ==
  /\ spc = "scan" /\ None("active") /\ spc' = "wait"
  /\ slipped' = slipped \cup {t \in Threads : pc[t] \in {"build", "insert"}}
  /\ UNCHANGED <<probeVars, object, threadVars, late, faults>>

TestPendingAlive ==
  /\ spc = "wait"
  /\ \E o \in Objects : object[o].list = "pending" /\ ~object[o].gone /\ Test(o)
  /\ UNCHANGED <<probeVars, threadVars, spc, late>>

\* a thread that ended has no pending frame
TestPending ==
  /\ spc = "wait"
  /\ \E o \in Objects :
       /\ object[o].list = "pending"
       /\ IF object[o].gone
          THEN object' = [object EXCEPT ![o].list = "complete"] /\ UNCHANGED <<slipped, faults>>
          ELSE Test(o)
  /\ UNCHANGED <<probeVars, threadVars, spc, late>>

EndWaitEarly ==
  /\ spc = "wait" /\ spc' = "close"
  /\ UNCHANGED <<probeVars, object, threadVars, late, slipped, faults>>

EndWait ==
  /\ spc = "wait" /\ None("pending") /\ spc' = "close"
  /\ UNCHANGED <<probeVars, object, threadVars, late, slipped, faults>>

\* BtrCloseMappingPerThread, BtrClearThreadStack
CloseObject ==
  /\ spc = "close"
  /\ \E o \in Objects :
       /\ object[o].list = "complete"
       /\ object' = [object EXCEPT ![o].mapped = FALSE, ![o].list = "closed"]
       /\ tls' = [t \in Threads |-> IF mine[t] = o /\ pc[t] # "cookie" THEN "none" ELSE tls[t]]
  /\ UNCHANGED <<probeVars, pc, at, frames, mine, spc, late, slipped, faults>>

EndClose ==
  /\ spc = "close" /\ None("complete") /\ spc' = "quiesce"
  /\ UNCHANGED <<probeVars, object, threadVars, late, slipped, faults>>

\* A thread in the way: Sleep(5000), and the threads are suspended again.
LookAgain ==
  /\ spc = "quiesce" /\ spc' = "again"
  /\ \E t \in Threads \ late : ~OutOfTrap(t) \/ "runtime" \in Places(t)
  /\ UNCHANGED <<probeVars, object, threadVars, late, slipped, faults>>

\* The trap pages, the heaps and the library go.
Unload ==
  /\ spc \in {"quiesce", "again"} /\ spc' = "unloaded" /\ AllOut
  /\ slipped' = slipped \cup {t \in Threads : Unseen(t)}
  /\ UNCHANGED <<probeVars, object, threadVars, late, faults>>

\* The status of the second suspending is ignored, and its list is then empty.
UnloadBlind ==
  /\ spc = "again" /\ spc' = "blind" /\ Fault
  /\ UNCHANGED <<probeVars, object, threadVars, late, slipped>>

Followed == spc \notin {"unloaded", "blind", "blocked"}

Runs(t) ==
  Followed /\ (InCall(t) \/ PopFrame(t) \/ QueueRundown(t) \/ SetExemptionCookie(t))

\* bound: the threads are not followed after the unloading
Program(t) ==
  Followed /\ (\/ Begin(t) \/ Call(t) \/ Unwind(t) \/ RemoveActive(t) \/ SetCookie(t)
               \/ Terminate(t) \/ Kill(t))

Unloads ==
  \/ UnregisterProbes \/ ScanPending \/ EndScan \/ TestPending \/ EndWait
  \/ CloseObject \/ EndClose \/ LookAgain \/ Unload
-----------------------------------------------------------------------------
Next ==
  \/ \E t \in Threads : Runs(t) \/ Program(t)
  \/ Snapshot \/ Register \/ Unregister \/ ScanRundown \/ ScheduleStop \/ SuspendBlocks
  \/ Unloads \/ UnloadBlind

\* runtime code runs on, and the probed function returns
Spec ==
  /\ Init /\ [][Next]_vars /\ WF_vars(Unloads)
  /\ \A t \in Threads : WF_vars(Runs(t))
-----------------------------------------------------------------------------
TypeOK ==
  /\ probe \in [Probes -> {"unused", "on", "off", "freed"}]
  /\ references \in [Probes -> Nat] /\ patched \in 0 .. MaxProbes
  /\ last \subseteq Probes
  /\ object \in [Objects -> [
       list : {"unused", "none", "active", "rundown", "pool", "pending", "complete", "closed"},
       exempt : BOOLEAN, mapped : BOOLEAN, gone : BOOLEAN]]
  /\ pc \in [Threads -> {"new", "app", "stub", "check", "build", "insert", "store", "known",
                         "capture", "write", "leave", "detach", "cookie", "gone"}]
  /\ at \in [Threads -> 0 .. MaxProbes] /\ frames \in [Threads -> Seq(Probes)]
  /\ tls \in [Threads -> {"none", "null", "object", "cookie"}]
  /\ mine \in [Threads -> 0 .. Cardinality(Threads)]
  /\ spc \in {"run", "stopping", "scan", "wait", "close", "quiesce", "again",
             "unloaded", "blind", "blocked"}
  /\ late \subseteq Threads /\ slipped \subseteq Threads /\ faults \in 0 .. MaxFaults

Uses(t) == ({at[t]} \ {0}) \cup ToSet(frames[t])

\* Unregistering frees a probe and its trap only when no thread that could be
\* seen has entered the one or will return through the other, and exceptions,
\* killed threads and new registrations do not change that.
NoUseAfterFree ==
  \A t \in Threads \ slipped : \A p \in Uses(t) : probe[p] \in {"on", "off"}

\* the thread gave its object to the pool and has not stored the cookie yet
GaveBack(t) == pc[t] = "cookie" /\ frames[t] = << >>

\* A thread object with a frame, or whose views a record is written through, is
\* not given back or closed by the rundown scan, by the thread's own end or by
\* the unloading.  Two threads name the same object only when one has given it
\* back and is about to store the cookie.
ObjectsHeld ==
  /\ \A t \in Threads \ slipped :
       frames[t] # << >> \/ pc[t] \in {"capture", "write"} =>
         object[mine[t]].mapped /\ object[mine[t]].list \notin {"pool", "closed"}
  /\ \A t, u \in Threads \ slipped :
       mine[t] = mine[u] /\ mine[t] # 0 => t = u \/ GaveBack(t) \/ GaveBack(u)

\* The library is unloaded when each thread is out of the runtime and will not
\* return to it, but for calls in which a thread detached.  It says nothing of
\* "blind", where the code unloads without having looked.
UnloadedIsQuiet ==
  spc = "unloaded" => \A t \in Threads \ slipped :
    /\ pc[t] \in {"new", "app", "gone"}
    /\ frames[t] # << >> => object[mine[t]].list = "rundown"

\* The unloading ends, although threads call, nest, detach, are killed and
\* begin while it looks for pending frames, if the probed function returns and
\* no thread is suspended that holds the heap's lock.
UnloadCompletes == (spc = "stopping") ~> (spc \in {"unloaded", "blind", "blocked"})

\* "if all three conditions are met, it's safe to decommit"; of the threads for
\* which the second and the third are, whatever the code sees of the others
SafeToDecommit ==
  [][Unregister => \A t \in Threads \ late : InLastTrap(t) \/ patched \notin Uses(t)]_vars
================================================================================
