------------------------------ MODULE RuntimeStop ------------------------------
(***************************************************************************)
(* The threads of the runtime in a traced process and how they stop         *)
(* (btr/sched.c, btr/queue.c, btr/ipc.c).  The schedule thread posts work   *)
(* to the write and to the watch thread at every tick of a timer, in        *)
(* packets of a small cache on its own stack or, when none is free, of the  *)
(* heap; the message thread serves the control program.  A thread that      *)
(* fails, a broken pipe and a stop request ask the schedule thread to stop  *)
(* the others, to wait for them and to unload the runtime.  The runtime is  *)
(* in remote mode: in local mode there is no message thread.                *)
(*                                                                          *)
(* A cached packet is a pair of a notification and a control block, which   *)
(* the code may pair differently from one use to the next; both are named   *)
(* by their slot.  A pair from the heap is made for one use and is its code.*)
(***************************************************************************)
EXTENDS Integers, Sequences, FiniteSetsExt

CONSTANTS
  CacheSize,   \* packets of the cache (10)
  MaxQueue,    \* bound: notifications in a queue when work is posted
  MaxFaults    \* bound: exceptions in threads, failures to create the port

ASSUME RuntimeAssumption ==
  CacheSize \in Nat \ {0} /\ MaxQueue \in Nat \ {0} /\ MaxFaults \in Nat

Slots   == 1 .. CacheSize
Workers == {"Write", "Watch"}
Codes   == {"flush", "lookaside", "stacktrace"}

VARIABLES
  posted, complete, code,  \* per slot: fields of the control block
  points,                  \* per slot: the control block of the notification, or 0
  control,                 \* the schedule thread's Control: a slot or 0
  quantum,                 \* modulo 4, which is all the tests look at
  spc,                     \* where the schedule thread is
  requestor,               \* whose stop it handles
  requests,                \* BtrSystemQueue[ThreadSchedule]: requestors of stops
  queue,                   \* BtrSystemQueue of each worker
  wpc, work,               \* per worker: where it is, the packet it handles
  mpc,                     \* where the message thread is
  broken,                  \* history: workers that an exception took out of their loop
  freed,                   \* history: cached notifications given to BtrFree, and whose they were
  faults

cacheVars    == <<posted, complete, code, points, control>>
scheduleVars == <<quantum, spc, requestor>>
workerVars   == <<queue, wpc, work>>
vars == <<cacheVars, scheduleVars, requests, workerVars, mpc, broken, freed, faults>>

\* what a queue holds: a cached notification, or one of the heap and its code
Cached(n)  == [slot |-> n, code |-> "none"]
OfHeap(c)  == [slot |-> 0, code |-> c]
NoWork     == OfHeap("none")

Init ==
  /\ posted = [s \in Slots |-> FALSE] /\ complete = [s \in Slots |-> FALSE]
  /\ code = [s \in Slots |-> "flush"] /\ points = [s \in Slots |-> 0]
  /\ control = 0 /\ quantum = 0 /\ spc = "timer" /\ requestor = "none"
  /\ requests = << >> /\ queue = [t \in Workers |-> << >>]
  /\ wpc = [t \in Workers |-> "wait"] /\ work = [t \in Workers |-> NoWork]
  /\ mpc = "create" /\ broken = {} /\ freed = {} /\ faults = 0

Fault == faults < MaxFaults /\ faults' = faults + 1
-----------------------------------------------------------------------------
(* BtrAllocateCachedPacket: the first slot that is not posted, or whose     *)
(* work is complete.  In the second case the caller's Control is left as it *)
(* was, and the slot is marked free although its notification is handed out.*)
Usable == {s \in Slots : ~posted[s] \/ complete[s]}

\* bound: the timer waits for a worker with MaxQueue notifications, and what is
\* posted to a worker that ended is left out when it has as many
Over(t) == wpc[t] \in {"request", "exited"}

Post(t, entry) ==
  queue' = IF Over(t) /\ Len(queue[t]) >= MaxQueue THEN queue
           ELSE [queue EXCEPT ![t] = Append(@, entry)]

PostHeap(t, c) ==
  /\ Post(t, OfHeap(c))
  /\ UNCHANGED <<code, points>>

PostCached(t, c, n, k) ==
  /\ Post(t, Cached(n))
  /\ code' = [code EXCEPT ![k] = c]
  /\ points' = [points EXCEPT ![n] = k]

\* slips: a slot whose work is complete is not looked for, and no packet of
\* the heap when the cache is exhausted
ScheduleWorkCachedOnly(t, c) ==
  IF Usable = {}
  THEN control' = 0 /\ UNCHANGED <<posted, complete, code, points, queue>>
  ELSE LET n == Min(Usable) IN
       /\ control' = n
       /\ posted' = [posted EXCEPT ![n] = TRUE]
       /\ complete' = [complete EXCEPT ![n] = FALSE]
       /\ PostCached(t, c, n, n)

\* with BtrScheduleWrite, BtrScheduleScanLookaside, BtrScheduleScanStackTrace
ScheduleWork(t, c) ==
  IF Usable = {}
  THEN control' = 0 /\ PostHeap(t, c) /\ UNCHANGED <<posted, complete>>
  ELSE LET n == Min(Usable)
           k == IF posted[n] THEN control ELSE n IN
       /\ control' = k
       /\ complete' = [s \in Slots |-> IF s \in {n, k} THEN FALSE ELSE complete[s]]
       /\ posted' = [s \in Slots |-> IF s = k THEN TRUE ELSE IF s = n THEN FALSE ELSE posted[s]]
       /\ IF k = 0 THEN PostHeap(t, c) ELSE PostCached(t, c, n, k)

\* the counter of ticks, never reset or reset when the longest period is over
NextQuantumUnreset == quantum + 1
NextQuantum == (quantum + 1) % 4

\* BtrScheduleProcedure
Timer ==
  /\ spc = "timer" /\ \A t \in Workers : Over(t) \/ Len(queue[t]) < MaxQueue
  /\ quantum' = NextQuantum
  /\ ScheduleWork("Write", "flush")
  /\ spc' = IF quantum' % 2 = 0 THEN "lookaside" ELSE "dequeue"
  /\ UNCHANGED <<requestor, requests, wpc, work, mpc, broken, freed, faults>>

ScheduleScanLookaside ==
  /\ spc = "lookaside"
  /\ ScheduleWork("Watch", "lookaside")
  /\ spc' = IF quantum = 0 THEN "stacktrace" ELSE "dequeue"
  /\ UNCHANGED <<quantum, requestor, requests, wpc, work, mpc, broken, freed, faults>>

ScheduleScanStackTrace ==
  /\ spc = "stacktrace" /\ spc' = "dequeue"
  /\ ScheduleWork("Watch", "stacktrace")
  /\ UNCHANGED <<quantum, requestor, requests, wpc, work, mpc, broken, freed, faults>>

ScheduleDeQueue ==
  /\ spc = "dequeue"
  /\ IF requests = << >>
     THEN spc' = "timer" /\ UNCHANGED <<requestor, requests>>
     ELSE spc' = "stop" /\ requestor' = Head(requests) /\ requests' = Tail(requests)
  /\ UNCHANGED <<cacheVars, quantum, workerVars, mpc, broken, freed, faults>>

ScheduleException ==
  /\ spc \in {"timer", "lookaside", "stacktrace", "dequeue"} /\ Fault
  /\ spc' = "stop" /\ requestor' = "Schedule"
  /\ UNCHANGED <<cacheVars, quantum, requests, workerVars, mpc, broken, freed>>

\* BtrScheduleStop.  What it posts to the message thread nobody reads.
ScheduleStop ==
  /\ spc = "stop" /\ spc' = "wait"
  /\ queue' = [t \in Workers |-> IF t = requestor THEN queue[t] ELSE Append(queue[t], OfHeap("stop"))]
  /\ UNCHANGED <<cacheVars, quantum, requestor, requests, wpc, work, mpc, broken, freed, faults>>

Exited(t) == wpc[t] = "exited"

WaitExits ==
  /\ spc = "wait" /\ spc' = "destroy"
  /\ mpc = "exited" /\ \A t \in Workers : Exited(t)
  /\ UNCHANGED <<cacheVars, quantum, requestor, requests, workerVars, mpc, broken, freed, faults>>

\* BtrClosePort, BtrDestroyQueue of every queue, and what follows
DestroyQueues ==
  /\ spc = "destroy" /\ spc' = "unloaded"
  /\ freed' = {f \in [worker : Workers, slot : Slots] :
                 \E i \in DOMAIN queue[f.worker] : queue[f.worker][i] = Cached(f.slot)}
  /\ queue' = [t \in Workers |-> << >>] /\ requests' = << >>
  /\ UNCHANGED <<cacheVars, quantum, requestor, wpc, work, mpc, broken, faults>>

Schedule ==
  \/ Timer \/ ScheduleScanLookaside \/ ScheduleScanStackTrace \/ ScheduleDeQueue
  \/ ScheduleStop \/ WaitExits \/ DestroyQueues
-----------------------------------------------------------------------------
(* BtrWriteProcedure and BtrWatchProcedure.                                 *)
PacketOf(n) == IF n.slot = 0 THEN n
               ELSE [slot |-> points[n.slot], code |-> code[points[n.slot]]]

\* a slip: a worker ends as soon as BtrUnloading is set
DeQueueUntilUnloading(t) ==
  /\ wpc[t] = "wait"
  /\ IF spc = "wait"
     THEN wpc' = [wpc EXCEPT ![t] = "exited"] /\ UNCHANGED <<queue, work>>
     ELSE /\ queue[t] # << >>
          /\ wpc' = [wpc EXCEPT ![t] = "work"]
          /\ work' = [work EXCEPT ![t] = PacketOf(Head(queue[t]))]
          /\ queue' = [queue EXCEPT ![t] = Tail(@)]
  /\ UNCHANGED <<cacheVars, scheduleVars, requests, mpc, broken, freed, faults>>

DeQueue(t) ==
  /\ wpc[t] = "wait" /\ queue[t] # << >>
  /\ LET n == Head(queue[t]) IN
     IF PacketOf(n).code = "stop"
     THEN wpc' = [wpc EXCEPT ![t] = "exited"] /\ UNCHANGED work
     ELSE wpc' = [wpc EXCEPT ![t] = "work"] /\ work' = [work EXCEPT ![t] = PacketOf(n)]
  /\ queue' = [queue EXCEPT ![t] = Tail(@)]
  /\ UNCHANGED <<cacheVars, scheduleVars, requests, mpc, broken, freed, faults>>

\* the write thread never marks a packet complete
Handle(t) ==
  /\ wpc[t] = "work"
  /\ complete' = IF t = "Watch" /\ work[t].slot # 0 /\ work[t].code \in {"lookaside", "stacktrace"}
                 THEN [complete EXCEPT ![work[t].slot] = TRUE] ELSE complete
  /\ wpc' = [wpc EXCEPT ![t] = "wait"] /\ work' = [work EXCEPT ![t] = NoWork]
  /\ UNCHANGED <<posted, code, points, control, scheduleVars, requests, queue, mpc, broken,
                 freed, faults>>

\* an exception leaves the loop
Exception(t) ==
  /\ wpc[t] = "work" /\ Fault
  /\ wpc' = [wpc EXCEPT ![t] = "request"] /\ work' = [work EXCEPT ![t] = NoWork]
  /\ broken' = broken \cup {t}
  /\ UNCHANGED <<cacheVars, scheduleVars, requests, queue, mpc, freed>>

RequestStop(t) ==
  /\ wpc[t] = "request"
  /\ wpc' = [wpc EXCEPT ![t] = "exited"] /\ requests' = Append(requests, t)
  /\ UNCHANGED <<cacheVars, scheduleVars, queue, work, mpc, broken, freed, faults>>

Worker(t) == DeQueue(t) \/ Handle(t) \/ RequestStop(t)
-----------------------------------------------------------------------------
(* BtrMessageProcedure; serving a request changes nothing here.             *)
messageRest == <<cacheVars, scheduleVars, workerVars, broken, freed>>

CreatePort ==
  /\ mpc = "create" /\ mpc' = "accept"
  /\ UNCHANGED <<messageRest, requests, faults>>

\* the thread ends and asks for nothing
CreatePortFails ==
  /\ mpc = "create" /\ mpc' = "exited" /\ Fault
  /\ UNCHANGED <<messageRest, requests>>

AcceptPort ==
  /\ mpc = "accept" /\ mpc' = "serve"
  /\ UNCHANGED <<messageRest, requests, faults>>

GetStopRequest ==
  /\ mpc = "serve" /\ mpc' = "ack"
  /\ UNCHANGED <<messageRest, requests, faults>>

GetMessageFails ==
  /\ mpc = "serve" /\ mpc' = "broken"
  /\ UNCHANGED <<messageRest, requests, faults>>

StopRuntimeForgotten ==
  /\ mpc \in {"ack", "broken"} /\ mpc' = "exited"
  /\ requests' = IF mpc = "ack" THEN requests ELSE Append(requests, "Message")
  /\ UNCHANGED <<messageRest, faults>>

\* BtrOnStopRequest after its acknowledgement, and BtrRequestStop
StopRuntime ==
  /\ mpc \in {"ack", "broken"} /\ mpc' = "exited"
  /\ requests' = Append(requests, IF mpc = "ack" THEN "User" ELSE "Message")
  /\ UNCHANGED <<messageRest, faults>>

Message == CreatePort \/ CreatePortFails \/ AcceptPort \/ GetStopRequest \/ GetMessageFails

Next ==
  \/ Schedule \/ ScheduleException
  \/ \E t \in Workers : Worker(t) \/ Exception(t)
  \/ Message \/ StopRuntime

\* threads that can run do; the control program is free
Spec ==
  /\ Init /\ [][Next]_vars
  /\ WF_vars(Schedule) /\ WF_vars(StopRuntime)
  /\ \A t \in Workers : WF_vars(Worker(t))
-----------------------------------------------------------------------------
TypeOK ==
  /\ posted \in [Slots -> BOOLEAN] /\ complete \in [Slots -> BOOLEAN]
  /\ code \in [Slots -> Codes] /\ points \in [Slots -> 0 .. CacheSize]
  /\ control \in 0 .. CacheSize /\ quantum \in 0 .. 3
  /\ spc \in {"timer", "lookaside", "stacktrace", "dequeue", "stop", "wait", "destroy", "unloaded"}
  /\ requestor \in Workers \cup {"none", "User", "Message", "Schedule"}
  /\ requests \in Seq(Workers \cup {"User", "Message"})
  /\ queue \in [Workers -> Seq([slot : 0 .. CacheSize, code : Codes \cup {"none", "stop"}])]
  /\ wpc \in [Workers -> {"wait", "work", "request", "exited"}]
  /\ work \in [Workers -> [slot : 0 .. CacheSize, code : Codes \cup {"none"}]]
  /\ mpc \in {"create", "accept", "serve", "ack", "broken", "exited"}
  /\ broken \subseteq Workers /\ freed \subseteq [worker : Workers, slot : Slots]
  /\ faults \in 0 .. MaxFaults

\* BtrDestroyQueue gives what is left in a queue to the heap.  A packet of the
\* schedule thread's stack is among it only in the queue of a worker that an
\* exception took out of its loop: no stop, whoever asks for it and whatever
\* else failed, leaves one in the queue of a worker that ended by its stop.
CachedNeverFreed == \A f \in freed : f.worker \in broken

\* A stop that the control program asks for, and a broken pipe, unload the
\* runtime, whatever else fails meanwhile.
StopCompletes == (mpc \in {"ack", "broken"}) ~> (spc = "unloaded")

\* As long as the runtime is not stopped the stack traces are flushed and the
\* rundown queue is scanned again and again, although the pairs of the cache are
\* mixed up, lose requests to the other worker, and are used up.
Does(t, c) == wpc[t] = "work" /\ work[t].code = c /\ Handle(t)

WorkGoesOn ==
  \/ <>(spc = "stop")
  \/ []<><<Does("Write", "flush")>>_vars /\ []<><<Does("Watch", "lookaside")>>_vars
================================================================================
