---------------------------- MODULE ControlCommands ----------------------------
(***************************************************************************)
(* Commands of the user on one target process (dprobe/mspprocess.c): the    *)
(* modal dialog queues one command at a time and waits for its callback;    *)
(* the command thread carries it out by control packets to the thread of    *)
(* the process, which talks to the runtime in the target over a pipe, one   *)
(* request and one acknowledgement at a time.  A timer thread queues stack  *)
(* trace packets to the same thread, the target may exit at any moment,     *)
(* a stopped process may be probed again, and closing the program stops     *)
(* the process with a timeout.                                              *)
(*                                                                          *)
(* The thread of the process created for command n is called n.             *)
(***************************************************************************)
EXTENDS Integers, Sequences

CONSTANTS
  MaxCommands,   \* bound: commands of the user
  MaxTicks,      \* bound: timer packets
  MaxFaults      \* bound: operating-system calls that fail, and exits of the target

ASSUME ControlAssumption ==
  MaxCommands \in Nat \ {0} /\ MaxTicks \in Nat /\ MaxFaults \in Nat

VARIABLES
  command,       \* the last command
  waiting,       \* the dialog waits for its callback
  issued,        \* how many commands there were
  answer,        \* Command->Status at the last callback
  applied,       \* history: the runtime was given the probes of this command
  cpc,           \* where the command thread is
  listed,        \* the process object is in MspDtlObject.ProcessListHead
  state,         \* Process->State
  queueObject, portObject,   \* the thread whose queue and port they are, or 0
  event,         \* Process->CompleteEvent, a manual-reset event
  result,        \* Control->Result of the last control packet
  held,          \* the control packets allocated: the command's, the exit's
  tpc,           \* per process thread: where it is
  current,       \* per process thread: the packet it handles, and the port
  queue, isOpen, \* per process thread: the queue it created
  pipe,          \* per process thread: the port it created
  target, runtime,  \* the process, and the runtime in it
  phase,         \* of MspUninitialize
  ticks, faults,
  overlap        \* history: a process thread started before the last had ended

userVars    == <<command, waiting, issued, answer, applied>>
processVars == <<listed, state, queueObject, portObject>>
packetVars  == <<event, result, held>>
threadVars  == <<tpc, current, overlap>>
queueVars   == <<queue, isOpen>>
targetVars  == <<target, runtime>>
boundVars   == <<phase, ticks, faults>>
vars == <<userVars, cpc, processVars, packetVars, threadVars, queueVars, pipe,
          targetVars, boundVars>>

Sessions == 1 .. MaxCommands
Nothing  == [kind |-> "none", port |-> 0]
Over     == {"unborn", "gone"}

Init ==
  /\ command = "none" /\ waiting = FALSE /\ issued = 0 /\ answer = "none" /\ applied = FALSE
  /\ cpc = "idle" /\ listed = FALSE /\ state = "NULL"
  /\ queueObject = 0 /\ portObject = 0
  /\ event = FALSE /\ result = "none" /\ held = {}
  /\ tpc = [g \in Sessions |-> "unborn"]
  /\ current = [g \in Sessions |-> Nothing]
  /\ queue = [g \in Sessions |-> << >>] /\ isOpen = [g \in Sessions |-> FALSE]
  /\ pipe = [g \in Sessions |-> "none"]
  /\ target = "alive" /\ runtime = "none"
  /\ phase = "running" /\ ticks = 0 /\ faults = 0 /\ overlap = FALSE

Fault == faults < MaxFaults /\ faults' = faults + 1 /\ UNCHANGED <<phase, ticks>>

\* MspQueuePacket: the status of a closed queue is ignored by every caller
Queued(packet) ==
  queue' = IF isOpen[queueObject]
           THEN [queue EXCEPT ![queueObject] = Append(@, packet)] ELSE queue

\* a control packet is queued to be waited for
Ask(packet, next) ==
  /\ event' = FALSE /\ held' = held \cup {"command"} /\ Queued(packet) /\ cpc' = next
  /\ UNCHANGED <<userVars, processVars, result, threadVars, isOpen, pipe, targetVars>>

\* a slip: the state of the process is reported in place of the status
CallbackOfState(status) ==
  /\ waiting' = FALSE /\ answer' = state /\ cpc' = "idle"
  /\ UNCHANGED <<command, issued, applied>>

\* MspCallCommandCallback, and the end of the dialog
Callback(status) ==
  /\ waiting' = FALSE /\ answer' = status /\ cpc' = "idle"
  /\ UNCHANGED <<command, issued, applied>>
-----------------------------------------------------------------------------
\* the user: MspQueueUserCommand, and MspOnCommand taking it
QueueUserCommand ==
  /\ phase = "running" /\ ~waiting /\ issued < MaxCommands
  /\ \E c \in {"probe", "stop"} : command' = c /\ cpc' = c
  /\ waiting' = TRUE
  /\ issued' = issued + 1 /\ answer' = "none" /\ applied' = FALSE
  /\ UNCHANGED <<processVars, packetVars, threadVars, queueVars, pipe, targetVars, boundVars>>

\* slips of the code, for comparison: no callback, and no start control
StopCommandSilent ==
  /\ cpc = "stop" /\ UNCHANGED boundVars
  /\ IF ~listed \/ state # "STARTED"
     THEN cpc' = "idle" /\ UNCHANGED <<userVars, processVars, packetVars, threadVars, queueVars,
                                       pipe, targetVars>>
     ELSE Ask("stop", "stopped")

StopCommand ==
  /\ cpc = "stop" /\ UNCHANGED boundVars
  /\ IF ~listed \/ state # "STARTED"
     THEN Callback("ok") /\ UNCHANGED <<processVars, packetVars, threadVars, queueVars,
                                        pipe, targetVars>>
     ELSE Ask("stop", "stopped")

ProbeCommand ==
  /\ cpc = "probe"
  /\ cpc' = CASE ~listed            -> "create"
              [] state = "STOPPED"  -> "create"
              [] state = "STARTED"  -> "build"
              [] OTHER              -> "start"
  /\ UNCHANGED <<userVars, processVars, packetVars, threadVars, queueVars, pipe,
                 targetVars, boundVars>>

\* MspCreateProcess and MspReCreateProcess, up to the wait for the thread
CreateProcess ==
  /\ cpc = "create" /\ target = "alive"
  /\ runtime' = CASE runtime = "none"     -> "listening"
                  [] runtime = "stopping" -> "kept"
                  [] OTHER                -> runtime
  /\ event' = FALSE /\ cpc' = "created"
  /\ overlap' = (overlap \/ \E g \in Sessions : tpc[g] \notin Over)
  /\ tpc' = [tpc EXCEPT ![issued] = "queue"]
  /\ IF listed THEN UNCHANGED processVars
     ELSE state' = "NULL" /\ queueObject' = 0 /\ portObject' = 0 /\ UNCHANGED listed
  /\ UNCHANGED <<userVars, result, held, current,
                 queueVars, pipe, target, boundVars>>

CreateFails ==
  /\ cpc = "create"
  /\ Callback("error")
  /\ IF target = "alive" THEN Fault ELSE UNCHANGED boundVars
  /\ UNCHANGED <<processVars, packetVars, threadVars, queueVars, pipe, targetVars>>

ProcessCreatedUnstarted ==
  /\ cpc = "created" /\ event
  /\ IF state = "INIT_SUCCEED"
     THEN /\ listed' = TRUE /\ cpc' = "build"
          /\ UNCHANGED <<userVars, tpc>>
     ELSE /\ tpc' = [tpc EXCEPT ![issued] = "gone"]   \* TerminateThread
          /\ Callback("error") /\ UNCHANGED listed
  /\ UNCHANGED <<state, queueObject, portObject, packetVars, current, overlap, queueVars, pipe,
                 targetVars, boundVars>>

ProcessCreated ==
  /\ cpc = "created" /\ event
  /\ IF state = "INIT_SUCCEED"
     THEN /\ listed' = TRUE /\ cpc' = "start"
          /\ UNCHANGED <<userVars, tpc>>
     ELSE /\ tpc' = [tpc EXCEPT ![issued] = "gone"]   \* TerminateThread
          /\ Callback("error") /\ UNCHANGED listed
  /\ UNCHANGED <<state, queueObject, portObject, packetVars, current, overlap, queueVars, pipe,
                 targetVars, boundVars>>

StartProcess ==
  /\ cpc = "start" /\ UNCHANGED boundVars
  /\ IF state = "STARTED"
     THEN cpc' = "build" /\ UNCHANGED <<userVars, processVars, packetVars, threadVars, queueVars,
                                        pipe, targetVars>>
     ELSE Ask("start", "started")

ProcessStarted ==
  /\ cpc = "started" /\ event
  /\ held' = held \ {"command"}
  /\ IF result = "ok" THEN cpc' = "build" /\ UNCHANGED userVars ELSE Callback("error")
  /\ UNCHANGED <<processVars, event, result, threadVars, queueVars, pipe, targetVars, boundVars>>

BuildLargeRequest == cpc = "build" /\ Ask("large", "committed") /\ UNCHANGED boundVars

\* the function returns without the callback
BuildFails ==
  /\ cpc = "build" /\ cpc' = "idle" /\ Fault
  /\ UNCHANGED <<userVars, processVars, packetVars, threadVars, queueVars, pipe, targetVars>>

\* the end of MspOnProbeCommand and of MspOnStopCommand
CommandDone ==
  /\ cpc \in {"committed", "stopped"} /\ event
  /\ held' = held \ {"command"}
  /\ Callback(result)
  /\ UNCHANGED <<processVars, event, result, threadVars, queueVars, pipe, targetVars, boundVars>>

CommandThread ==
  \/ StopCommand \/ ProbeCommand \/ CreateProcess \/ CreateFails \/ ProcessCreated
  \/ StartProcess \/ ProcessStarted \/ BuildLargeRequest \/ BuildFails \/ CommandDone
-----------------------------------------------------------------------------
(* MspProcessProcedure of the thread of command g.                          *)
Step(g, from, to) ==
  /\ tpc[g] = from /\ tpc' = [tpc EXCEPT ![g] = to]
  /\ UNCHANGED <<userVars, cpc, overlap>>

CreateQueue(g) ==
  /\ Step(g, "queue", "port")
  /\ queueObject' = g /\ isOpen' = [isOpen EXCEPT ![g] = TRUE]
  /\ UNCHANGED <<listed, state, portObject, packetVars, current, queue, pipe, targetVars,
                 boundVars>>

CreatePort(g) ==
  /\ Step(g, "port", "connect")
  /\ portObject' = g
  /\ UNCHANGED <<listed, state, queueObject, packetVars, current, queueVars, pipe, targetVars,
                 boundVars>>

\* the thread ends and nobody is told
CreateObjectFails(g) ==
  /\ Step(g, "queue", "gone") \/ Step(g, "port", "gone")
  /\ Fault
  /\ UNCHANGED <<processVars, packetVars, current, queueVars, pipe, targetVars>>

Connect(g) ==
  /\ Step(g, "connect", "loop")
  /\ runtime = "listening"
  /\ pipe' = [pipe EXCEPT ![g] = "idle"] /\ runtime' = "serving"
  /\ state' = "INIT_SUCCEED" /\ event' = TRUE
  /\ UNCHANGED <<listed, queueObject, portObject, result, held, current, queueVars, target,
                 boundVars>>

ConnectFails(g) ==
  /\ Step(g, "connect", "discardQueue")
  /\ IF runtime = "listening" THEN Fault ELSE UNCHANGED boundVars
  /\ state' = "INIT_FAILED" /\ event' = TRUE
  /\ UNCHANGED <<listed, queueObject, portObject, result, held, current, queueVars, pipe,
                 targetVars>>

\* what a control asks of the runtime, and what is answered without asking
Asks(kind) ==
  \/ kind = "timer"
  \/ kind = "start" /\ state # "STARTED"
  \/ kind \in {"stop", "large"} /\ state = "STARTED"

\* Control->Result, and SetEvent
Complete(status) == result' = status /\ event' = TRUE /\ UNCHANGED held

DeQueuePacket(g) ==
  /\ tpc[g] = "loop" /\ isOpen[queueObject] /\ queue[queueObject] # << >>
  /\ LET kind == Head(queue[queueObject]) IN
       /\ queue' = [queue EXCEPT ![queueObject] = Tail(@)]
       /\ IF Asks(kind)
          THEN /\ Step(g, "loop", "send") /\ UNCHANGED packetVars
               /\ current' = [current EXCEPT ![g] = [kind |-> kind, port |-> portObject]]
          ELSE Step(g, "loop", "loop") /\ Complete("ok") /\ UNCHANGED current
  /\ UNCHANGED <<processVars, isOpen, pipe, targetVars, boundVars>>

\* GetQueuedCompletionStatus fails on a queue that is closed
QueueGone(g) ==
  /\ tpc[g] = "loop" /\ ~isOpen[queueObject]
  /\ Step(g, "loop", "leave")
  /\ UNCHANGED <<processVars, packetVars, current, queueVars, pipe, targetVars, boundVars>>

SendMessage(g) ==
  /\ tpc[g] = "send" /\ pipe[current[g].port] = "idle"
  /\ Step(g, "send", "await")
  /\ pipe' = [pipe EXCEPT ![current[g].port] = "asked"]
  /\ UNCHANGED <<processVars, packetVars, current, queueVars, targetVars, boundVars>>

\* MspOnStart, MspOnStop, MspOnLargeProbe, MspOnStackTrace with their answer
GetMessage(g) ==
  /\ tpc[g] = "await" /\ pipe[current[g].port] = "acked"
  /\ pipe' = [pipe EXCEPT ![current[g].port] = IF target = "alive" /\ runtime = "serving"
                                               THEN "idle" ELSE "broken"]
  /\ CASE current[g].kind = "timer" ->
             Step(g, "await", "loop") /\ UNCHANGED <<packetVars, state>>
       [] current[g].kind = "start" ->
             Step(g, "await", "loop") /\ state' = "STARTED" /\ Complete("ok")
       [] current[g].kind = "stop" ->
             Step(g, "await", "leave") /\ state' = "STOPPED" /\ Complete("stopped")
       [] current[g].kind = "large" ->
             Step(g, "await", "loop") /\ Complete("ok") /\ UNCHANGED state
  /\ current' = [current EXCEPT ![g] = Nothing]
  /\ UNCHANGED <<listed, queueObject, portObject, queueVars, targetVars, boundVars>>

\* ... and when the pipe, or a handle that MspOnStart duplicates, fails
MessageFails(g) ==
  /\ Step(g, "send", "leave") \/ Step(g, "await", "leave")
  /\ \/ pipe[current[g].port] \in {"broken", "closed"} /\ UNCHANGED boundVars
     \/ tpc[g] = "send" /\ current[g].kind = "start" /\ Fault
  /\ CASE current[g].kind = "timer" -> UNCHANGED <<packetVars, state>>
       [] current[g].kind = "stop"  -> state' = "STOPPED" /\ Complete("stopped")
       [] OTHER                     -> Complete("error") /\ UNCHANGED state
  /\ current' = [current EXCEPT ![g] = Nothing]
  /\ UNCHANGED <<listed, queueObject, portObject, queueVars, pipe, targetVars>>

\* "This is the case of ipc broken, or application simply terminated"
Leave(g) ==
  /\ Step(g, "leave", "closePort")
  /\ state' = IF state = "STARTED" THEN "STOPPED" ELSE state
  /\ UNCHANGED <<listed, queueObject, portObject, packetVars, current, queueVars, pipe,
                 targetVars, boundVars>>

\* the port and the queue are those of the object, whoever made them
ClosePort(g) ==
  /\ Step(g, "closePort", "closeQueue") \/ Step(g, "discardPort", "gone")
  /\ pipe' = [pipe EXCEPT ![portObject] = "closed"]
  /\ UNCHANGED <<processVars, packetVars, current, queueVars, targetVars, boundVars>>

CloseQueue(g) ==
  /\ Step(g, "closeQueue", "gone") \/ Step(g, "discardQueue", "discardPort")
  /\ queue' = [queue EXCEPT ![queueObject] = << >>]
  /\ isOpen' = [isOpen EXCEPT ![queueObject] = FALSE]
  /\ UNCHANGED <<processVars, packetVars, current, pipe, targetVars, boundVars>>

ProcessThread(g) ==
  /\ phase # "exited"
  /\ \/ CreateQueue(g) \/ CreatePort(g) \/ CreateObjectFails(g) \/ Connect(g) \/ ConnectFails(g)
     \/ DeQueuePacket(g) \/ QueueGone(g) \/ SendMessage(g) \/ GetMessage(g) \/ MessageFails(g)
     \/ Leave(g) \/ ClosePort(g) \/ CloseQueue(g)
-----------------------------------------------------------------------------
(* The runtime in the target: BtrMessageProcedure serves the connection it  *)
(* accepted, acknowledges a stop request before it stops, and stops when    *)
(* the connection breaks; then it unloads, which RuntimeStop models.        *)
runtimeRest == <<userVars, cpc, processVars, packetVars, threadVars, queueVars>>

Serve(g) ==
  /\ target = "alive" /\ runtime = "serving" /\ pipe[g] = "asked"
  /\ \E h \in Sessions :
       /\ tpc[h] = "await" /\ current[h].port = g
       /\ runtime' = IF current[h].kind = "stop" THEN "stopping" ELSE runtime
       /\ applied' = (applied \/ current[h].kind = "large")
  /\ pipe' = [pipe EXCEPT ![g] = "acked"]
  /\ UNCHANGED <<command, waiting, issued, answer, cpc, processVars, packetVars, threadVars, queueVars,
                 target, boundVars>>

\* the process thread closed its end, or was terminated
ConnectionBreaks ==
  /\ runtime = "serving" /\ runtime' = "stopping"
  /\ \A g \in Sessions : pipe[g] \in {"none", "closed", "broken"}
  /\ UNCHANGED <<runtimeRest, pipe, target, boundVars>>

Broken(p) == IF p \in {"idle", "asked"} THEN "broken" ELSE p

Unload ==
  /\ runtime = "stopping" /\ runtime' = "none"
  /\ pipe' = [g \in Sessions |-> Broken(pipe[g])]
  /\ UNCHANGED <<runtimeRest, target, boundVars>>

\* an answer already written can still be read
TargetExits ==
  /\ target = "alive" /\ target' = "dead" /\ runtime' = "none"
  /\ pipe' = [g \in Sessions |-> Broken(pipe[g])]
  /\ Fault /\ UNCHANGED runtimeRest

\* MspPostTimerPacket
PostTimerPacket ==
  /\ phase = "running" /\ ticks < MaxTicks
  /\ listed /\ state = "STARTED"
  /\ Queued("timer") /\ ticks' = ticks + 1
  /\ UNCHANGED <<userVars, cpc, processVars, packetVars, threadVars, isOpen, pipe, targetVars,
                 phase, faults>>
-----------------------------------------------------------------------------
(* MspUninitialize, which the user reaches when no dialog is open.          *)
Uninitialize ==
  /\ phase = "running" /\ ~waiting /\ phase' = "stopAll"
  /\ UNCHANGED <<runtimeRest, pipe, targetVars, ticks, faults>>

StopAllProcess ==
  /\ phase = "stopAll" /\ listed' = FALSE
  /\ IF listed /\ state = "STARTED"
     THEN /\ event' = FALSE /\ held' = held \cup {"exit"} /\ Queued("stop")
          /\ phase' = "wait" /\ UNCHANGED result
     ELSE phase' = "exited" /\ UNCHANGED <<packetVars, queue>>
  /\ UNCHANGED <<userVars, cpc, state, queueObject, portObject, threadVars, isOpen, pipe,
                 targetVars, ticks, faults>>

ProcessStopped ==
  /\ phase = "wait" /\ event
  /\ held' = held \ {"exit"} /\ phase' = "exited"
  /\ UNCHANGED <<userVars, cpc, processVars, event, result, threadVars, queueVars, pipe,
                 targetVars, ticks, faults>>

StopTimesOutUnterminated ==
  /\ phase = "wait"
  /\ held' = held \ {"exit"} /\ phase' = "exited"
  /\ UNCHANGED <<userVars, cpc, processVars, event, result, threadVars, queueVars, pipe,
                 targetVars, ticks, faults>>

\* after a second the thread is terminated and the packet freed
StopTimesOut ==
  /\ phase = "wait"
  /\ held' = held \ {"exit"} /\ phase' = "exited"
  /\ tpc' = [g \in Sessions |-> IF g = queueObject THEN "gone" ELSE tpc[g]]
  /\ UNCHANGED <<userVars, cpc, processVars, event, result, current, overlap, queueVars, pipe,
                 targetVars, ticks, faults>>

Exit == StopAllProcess \/ ProcessStopped \/ StopTimesOut

Runtime == ConnectionBreaks \/ Unload \/ \E g \in Sessions : Serve(g)

Next ==
  \/ QueueUserCommand \/ CommandThread
  \/ \E g \in Sessions : ProcessThread(g)
  \/ Runtime \/ TargetExits \/ PostTimerPacket
  \/ Uninitialize \/ Exit

\* threads that can run do, and the runtime answers; the user, the timer and
\* the target's exit are free
Spec ==
  /\ Init /\ [][Next]_vars
  /\ WF_vars(CommandThread) /\ WF_vars(Runtime) /\ WF_vars(Exit)
  /\ \A g \in Sessions : WF_vars(ProcessThread(g))
-----------------------------------------------------------------------------
TypeOK ==
  /\ command \in {"none", "probe", "stop"} /\ waiting \in BOOLEAN /\ issued \in 0 .. MaxCommands
  /\ answer \in {"none", "ok", "error", "stopped"} /\ applied \in BOOLEAN
  /\ cpc \in {"idle", "stop", "probe", "create", "created", "start", "started", "build",
              "committed", "stopped"}
  /\ listed \in BOOLEAN
  /\ state \in {"NULL", "INIT_FAILED", "INIT_SUCCEED", "STARTED", "STOPPED"}
  /\ queueObject \in 0 .. MaxCommands /\ portObject \in 0 .. MaxCommands
  /\ event \in BOOLEAN /\ result \in {"none", "ok", "error", "stopped"}
  /\ held \subseteq {"command", "exit"}
  /\ tpc \in [Sessions -> Over \cup {"queue", "port", "connect", "loop", "send", "await", "leave",
                   "closePort", "closeQueue", "discardQueue", "discardPort"}]
  /\ current \in [Sessions -> [kind : {"none", "start", "stop", "large", "timer"},
                               port : 0 .. MaxCommands]]
  /\ queue \in [Sessions -> Seq({"start", "stop", "large", "timer"})]
  /\ isOpen \in [Sessions -> BOOLEAN]
  /\ pipe \in [Sessions -> {"none", "idle", "asked", "acked", "broken", "closed"}]
  /\ target \in {"alive", "dead"}
  /\ runtime \in {"none", "listening", "serving", "stopping", "kept"}
  /\ phase \in {"running", "stopAll", "wait", "exited"}
  /\ ticks \in 0 .. MaxTicks /\ faults \in 0 .. MaxFaults /\ overlap \in BOOLEAN

Alive(g) == tpc[g] \notin Over
Control(k) == k \in {"start", "stop", "large"}

\* A control packet is allocated as long as a thread handles it or will take
\* it out of its queue, although the commander frees it on an event that is
\* shared by all packets of the process, and the exit after a second; unless a
\* session overlapped the one before, whose thread may take its packets.
PacketsAllocated ==
  \A g \in Sessions : (Alive(g) /\ ~overlap) =>
    \/ held # {}
    \/ ~Control(current[g].kind)
       /\ \A i \in DOMAIN queue[g] : ~Control(queue[g][i])

\* The dialog of a probe command ends without error only when the runtime was
\* given the probes: MspOnControl answers a large probe with success, and asks
\* nobody, when the process is not started.  A process that is probed again
\* while the thread of its last session still closes it is left out.
OkMeansApplied == (command = "probe" /\ answer = "ok" /\ ~overlap) => applied

\* the three ways in which a command is never answered
Stuck ==
  \/ waiting /\ cpc = "idle" /\ command = "probe" /\ faults > 0
  \/ cpc \in {"created", "started", "committed", "stopped"} /\ ~event
     /\ \A g \in Sessions : ~Alive(g)
  \/ overlap

\* Every command ends with its callback, unless its request could not be built,
\* nobody is left to signal the event of the process, or the process was probed
\* again while its last session was closing.
Answered == waiting ~> (~waiting \/ Stuck)

\* "when the command is completed, user get notification via callback function"
EveryCommandAnswered == waiting ~> ~waiting
================================================================================
