------------------------- MODULE ControlCommandsProofs -------------------------
(***************************************************************************)
(* The commands on a target process, for every number of commands, timer    *)
(* packets and faults.  As long as no session overlaps the one before there *)
(* is one process thread and one control packet at a time, the one that the *)
(* command thread or the exit waits for, with the event of the process      *)
(* reset; so the event, which all packets share, can only be that of the    *)
(* packet that is waited for, and the packet is freed when it was answered. *)
(***************************************************************************)
EXTENDS ControlCommands, SequenceTheorems, TLAPS

Kinds   == {"start", "stop", "large", "timer"}
Active  == {"loop", "send", "await"}
Talking == {"send", "await"}

\* The type invariant in parts, which the provers handle one at a time.
Flags ==
  /\ waiting \in BOOLEAN /\ applied \in BOOLEAN /\ listed \in BOOLEAN
  /\ event \in BOOLEAN /\ overlap \in BOOLEAN

Ranges ==
  /\ command \in {"none", "probe", "stop"} /\ issued \in 0 .. MaxCommands
  /\ answer \in {"none", "ok", "error", "stopped"}
  /\ cpc \in {"idle", "stop", "probe", "create", "created", "start", "started", "build",
              "committed", "stopped"}
  /\ state \in {"NULL", "INIT_FAILED", "INIT_SUCCEED", "STARTED", "STOPPED"}
  /\ queueObject \in 0 .. MaxCommands /\ portObject \in 0 .. MaxCommands
  /\ result \in {"none", "ok", "error", "stopped"}
  /\ target \in {"alive", "dead"}
  /\ runtime \in {"none", "listening", "serving", "stopping", "kept"}
  /\ phase \in {"running", "stopAll", "wait", "exited"}
  /\ ticks \in 0 .. MaxTicks /\ faults \in 0 .. MaxFaults
Maps ==
  /\ tpc \in [Sessions -> Over \cup {"queue", "port", "connect", "loop", "send", "await", "leave",
                   "closePort", "closeQueue", "discardQueue", "discardPort"}]
  /\ current \in [Sessions -> [kind : {"none", "start", "stop", "large", "timer"},
                               port : 0 .. MaxCommands]]
  /\ pipe \in [Sessions -> {"none", "idle", "asked", "acked", "broken", "closed"}]
Queues ==
  queue \in [Sessions -> Seq({"start", "stop", "large", "timer"})]

Opened == isOpen \in [Sessions -> BOOLEAN]

Packets == held \subseteq {"command", "exit"}

\* A thread that has not begun has no queue, no packet and no packet taken.
Fresh ==
  /\ \A g \in Sessions :
       g > issued \/ (g = issued /\ cpc \in {"probe", "create"}) => tpc[g] = "unborn"
  /\ \A g \in Sessions : tpc[g] \in {"unborn", "queue"} => queue[g] = << >> /\ ~isOpen[g]
  /\ \A g \in Sessions : tpc[g] \notin Talking \cup {"gone"} => current[g] = Nothing
  /\ \A g \in Sessions : tpc[g] \in Talking => current[g].kind \in Kinds

\* The dialog waits as long as the command thread is at work, and the program
\* ends when it does not.
Modal ==
  /\ ~waiting => cpc = "idle"
  /\ phase # "running" => ~waiting
  /\ cpc \in {"stop", "stopped"} => command = "stop"
  /\ cpc \in {"started", "committed", "stopped"} => "command" \in held
  /\ phase = "wait" => "exit" \in held

\* A process that is not listed has at most the thread that is being waited for.
Unlisted ==
  ~listed /\ phase = "running" => \A g \in Sessions : Alive(g) => g = issued /\ cpc = "created"

\* A thread past the creation of its queue and port finds some in the process.
Made ==
  /\ queueObject = 0 => \A g \in Sessions : tpc[g] \in Over \cup {"queue"}
  /\ portObject = 0 => \A g \in Sessions : tpc[g] \in Over \cup {"queue", "port"}

\* The queue of the process was made by a thread of a command.
Numbered == queueObject <= issued

\* The control packet that the command thread, or the exit, waits for.
Expected ==
  CASE cpc = "started"   -> "start"
    [] cpc = "committed" -> "large"
    [] cpc = "stopped" \/ phase = "wait" -> "stop"
    [] OTHER -> "none"

\* One thread at a time, with its own queue and port ...
OneSession ==
  /\ \A g, h \in Sessions : Alive(g) /\ Alive(h) => g = h
  /\ \A g \in Sessions : Alive(g) /\ tpc[g] # "queue" => queueObject = g
  /\ \A g \in Sessions : Alive(g) /\ tpc[g] \notin {"queue", "port"} => portObject = g
  /\ \A g \in Sessions : tpc[g] \in Talking => current[g].port = g
  /\ \A g \in Sessions :
       tpc[g] \in {"queue", "port", "connect"} => cpc = "created" /\ g = issued /\ ~event

\* ... and one control packet at a time, the expected one, with the event reset.
OnePacketOf(g) ==
  /\ Control(current[g].kind) =>
       /\ ~event /\ current[g].kind = Expected
       /\ \A i \in DOMAIN queue[g] : ~Control(queue[g][i])
  /\ \A i \in DOMAIN queue[g] : Control(queue[g][i]) => ~event /\ queue[g][i] = Expected
  /\ \A i, j \in DOMAIN queue[g] : Control(queue[g][i]) /\ Control(queue[g][j]) => i = j

OnePacket == \A g \in Sessions : Alive(g) => OnePacketOf(g)

\* What is on the pipe is the answer to the packet its thread handles.
Answers ==
  /\ \A g \in Sessions : pipe[g] \in {"asked", "acked"} /\ tpc[g] # "gone" => tpc[g] = "await"
  /\ \A g \in Sessions :
       tpc[g] = "await" /\ pipe[g] = "acked" /\ current[g].kind = "large" => applied

\* A large request is made only of a process that was started, as far as its
\* thread still handles packets.
Started == \A g \in Sessions : tpc[g] \in Active => state = "STARTED"

Served ==
  /\ cpc \in {"build", "committed"} => Started
  /\ cpc = "started" /\ event /\ result = "ok" => Started
  /\ cpc = "committed" /\ event /\ result = "ok" => applied
  /\ command = "probe" /\ answer = "ok" => applied

Orderly == OneSession /\ OnePacket /\ Answers /\ Served

IInv ==
  /\ Flags /\ Ranges /\ Maps /\ Queues /\ Opened /\ Packets
  /\ Fresh /\ Modal /\ Unlisted /\ Made /\ Numbered
  /\ ~overlap => Orderly
-----------------------------------------------------------------------------
(* What the steps of a process thread have in common.                       *)

\* where a process thread may go from where it is
Moves ==
  {<<"queue", "port">>, <<"queue", "gone">>, <<"port", "connect">>, <<"port", "gone">>,
   <<"connect", "loop">>, <<"connect", "discardQueue">>, <<"loop", "loop">>, <<"loop", "send">>,
   <<"loop", "leave">>, <<"send", "await">>, <<"send", "leave">>, <<"await", "loop">>,
   <<"await", "leave">>, <<"leave", "closePort">>, <<"closePort", "closeQueue">>,
   <<"closeQueue", "gone">>, <<"discardQueue", "discardPort">>, <<"discardPort", "gone">>}

\* what a step of thread g changes, and leaves alone
Effect(g) ==
  /\ UNCHANGED <<userVars, cpc, overlap, listed, held, phase, target, ticks>>
  /\ tpc' = [tpc EXCEPT ![g] = tpc'[g]] /\ <<tpc[g], tpc'[g]>> \in Moves
  /\ current' = [current EXCEPT ![g] = current'[g]]
  /\ queueObject' = (IF tpc[g] = "queue" /\ tpc'[g] = "port" THEN g ELSE queueObject)
  /\ portObject' = (IF tpc'[g] = "connect" THEN g ELSE portObject)
  /\ event' # event => tpc[g] \in {"connect"} \cup Active
  /\ state' # state => tpc[g] \in {"connect", "leave"} \/ state' = "STARTED" \/ tpc'[g] = "leave"

LEMMA ThreadEffect ==
  ASSUME Maps, Fresh, NEW g \in Sessions, ProcessThread(g) PROVE Effect(g)
<1> USE DEF Maps, Effect, Moves, Step, Active, Complete, Fault, userVars, processVars,
            packetVars, threadVars, queueVars, targetVars, boundVars
<1>1. CASE CreateQueue(g) \/ CreatePort(g)
  BY <1>1 DEF CreateQueue, CreatePort
<1>2. CASE CreateObjectFails(g)
  BY <1>2 DEF CreateObjectFails
<1>3. CASE Connect(g) \/ ConnectFails(g)
  BY <1>3 DEF Connect, ConnectFails
<1>4. CASE DeQueuePacket(g)
  BY <1>4 DEF DeQueuePacket
<1>5. CASE QueueGone(g) \/ SendMessage(g)
  BY <1>5 DEF QueueGone, SendMessage
<1>6. CASE GetMessage(g)
  BY <1>6 DEF GetMessage, Fresh, Talking, Kinds
<1>7. CASE MessageFails(g)
  BY <1>7 DEF MessageFails
<1>8. CASE Leave(g) \/ ClosePort(g) \/ CloseQueue(g)
  BY <1>8 DEF Leave, ClosePort, CloseQueue
<1> QED
  BY <1>1, <1>2, <1>3, <1>4, <1>5, <1>6, <1>7, <1>8 DEF ProcessThread

\* A packet that DeQueuePacket takes comes from a queue that is open.
LEMMA PacketTaken ==
  ASSUME Ranges, Maps, Queues, Made, NEW g \in Sessions, DeQueuePacket(g)
  PROVE  /\ queueObject \in Sessions /\ isOpen[queueObject] /\ queue[queueObject] # << >>
         /\ queue[queueObject] \in Seq(Kinds) /\ Head(queue[queueObject]) \in Kinds
         /\ Tail(queue[queueObject]) \in Seq(Kinds)
<1>1. queueObject \in Sessions /\ isOpen[queueObject] /\ queue[queueObject] # << >>
  BY DEF DeQueuePacket, Ranges, Maps, Made, Sessions, Over, Step
<1>2. queue[queueObject] \in Seq(Kinds)
  BY <1>1 DEF Queues, Kinds
<1> QED
  BY <1>1, <1>2

\* What MspQueuePacket does to the queues.
LEMMA PacketQueued ==
  ASSUME Ranges, Maps, Queues, NEW k \in Kinds, Queued(k)
  PROVE  /\ Queues'
         /\ \A g \in Sessions : \/ queue'[g] = queue[g]
                                \/ g = queueObject /\ isOpen[g] /\ queue'[g] = Append(queue[g], k)
<1>1. CASE queueObject \in Sessions /\ isOpen[queueObject]
  <2>1. Append(queue[queueObject], k) \in Seq(Kinds)
    BY <1>1 DEF Queues, Kinds
  <2>2. queue' = [queue EXCEPT ![queueObject] = Append(@, k)]
    BY <1>1 DEF Queued
  <2> QED
    BY <1>1, <2>1, <2>2 DEF Queues, Kinds
<1>2. CASE queueObject \in Sessions /\ ~isOpen[queueObject]
  BY <1>2 DEF Queued, Queues
<1>3. CASE queueObject \notin Sessions
  BY <1>3 DEF Queued, Queues
<1> QED
  BY <1>1, <1>2, <1>3
-----------------------------------------------------------------------------
(* Types.                                                                   *)

\* The parts are the type invariant.
LEMMA TypeParts == TypeOK <=> Flags /\ Ranges /\ Maps /\ Queues /\ Opened /\ Packets
BY DEF TypeOK, Opened, Packets, Flags, Ranges, Maps, Queues

\* Every step keeps each part.
LEMMA FlagsStep ==
  ASSUME Flags, Maps, Fresh, Next PROVE Flags'
<1> USE DEF Flags, userVars, processVars, packetVars, threadVars, queueVars, targetVars,
            boundVars
<1>1. CASE QueueUserCommand \/ CommandThread
  BY <1>1 DEF CommandThread, QueueUserCommand, StopCommand, ProbeCommand, CreateProcess,
         CreateFails, ProcessCreated, StartProcess, ProcessStarted, BuildLargeRequest,
         BuildFails, CommandDone, Ask, Callback, Fault
<1>2. ASSUME NEW g \in Sessions, ProcessThread(g) PROVE Flags'
  <2>1. UNCHANGED <<waiting, applied, listed, overlap>>
    BY <1>2, ThreadEffect DEF Effect
  <2>2. event' \in BOOLEAN
    <3>1. CASE GetMessage(g)
      BY <3>1 DEF GetMessage, Complete, Fresh, Kinds, Talking, Step, Maps
    <3>2. CASE ~GetMessage(g)
      BY <1>2, <3>2 DEF ProcessThread, CreateQueue, CreatePort, CreateObjectFails, Connect,
             ConnectFails, DeQueuePacket, QueueGone, SendMessage, MessageFails, Leave,
             ClosePort, CloseQueue, Complete
    <3> QED
      BY <3>1, <3>2
  <2> QED
    BY <2>1, <2>2
<1>3. CASE Runtime \/ TargetExits
  BY <1>3 DEF Runtime, ConnectionBreaks, Unload, Serve, TargetExits, runtimeRest, Fault
<1>4. CASE PostTimerPacket \/ Uninitialize \/ Exit
  BY <1>4 DEF PostTimerPacket, Uninitialize, Exit, StopAllProcess, ProcessStopped,
         StopTimesOut, runtimeRest
<1> QED
  BY <1>1, <1>2, <1>3, <1>4 DEF Next

LEMMA RangesStep ==
  ASSUME Flags, Ranges, Maps, Fresh, Next PROVE Ranges'
<1> USE ControlAssumption
    DEF Ranges, Flags, Sessions, Callback, Ask, Fault, runtimeRest,
        userVars, processVars, packetVars, threadVars, queueVars, targetVars, boundVars
<1>1. CASE QueueUserCommand \/ ProbeCommand \/ CreateProcess \/ CreateFails \/ ProcessCreated
  BY <1>1 DEF QueueUserCommand, ProbeCommand, CreateProcess, CreateFails, ProcessCreated
<1>2. CASE StopCommand
  BY <1>2 DEF StopCommand
<1>3. CASE StartProcess
  BY <1>3 DEF StartProcess
<1>4. CASE ProcessStarted \/ BuildLargeRequest \/ BuildFails \/ CommandDone
  BY <1>4 DEF ProcessStarted, BuildLargeRequest, BuildFails, CommandDone
<1>5. ASSUME NEW g \in Sessions, ProcessThread(g) PROVE Ranges'
  <2>1. Effect(g)
    BY <1>5, ThreadEffect
  <2>2. CASE CreateQueue(g) \/ CreatePort(g) \/ CreateObjectFails(g) \/ Connect(g)
             \/ ConnectFails(g)
    BY <2>1, <2>2 DEF Effect, CreateQueue, CreatePort, CreateObjectFails, Connect, ConnectFails
  <2>3. CASE DeQueuePacket(g) \/ QueueGone(g) \/ SendMessage(g) \/ Leave(g) \/ ClosePort(g)
             \/ CloseQueue(g)
    BY <2>1, <2>3 DEF Effect, DeQueuePacket, Complete, QueueGone, SendMessage, Leave,
           ClosePort, CloseQueue
  <2>4. CASE GetMessage(g)
    <3>1. /\ UNCHANGED <<queueObject, portObject, runtime, faults>>
          /\ state' \in {state, "STARTED", "STOPPED"} /\ result' \in {result, "ok", "stopped"}
      BY <2>4 DEF GetMessage, Complete, Fresh, Kinds, Talking, Step
    <3> QED
      BY <2>1, <3>1 DEF Effect
  <2>5. CASE MessageFails(g)
    BY <2>1, <2>5 DEF Effect, MessageFails, Complete
  <2> QED
    BY <1>5, <2>2, <2>3, <2>4, <2>5 DEF ProcessThread
<1>6. CASE Runtime \/ TargetExits
  BY <1>6 DEF Runtime, ConnectionBreaks, Unload, Serve, TargetExits
<1>7. CASE PostTimerPacket \/ Uninitialize
  BY <1>7 DEF PostTimerPacket, Uninitialize
<1>8. CASE StopAllProcess
  BY <1>8 DEF StopAllProcess
<1>9. CASE ProcessStopped \/ StopTimesOut
  BY <1>9 DEF ProcessStopped, StopTimesOut
<1> QED
  BY <1>1, <1>2, <1>3, <1>4, <1>5, <1>6, <1>7, <1>8, <1>9 DEF Next, CommandThread, Exit

LEMMA MapsStep ==
  ASSUME Ranges, Maps, Queues, Fresh, Made, Next PROVE Maps'
<1> USE ControlAssumption
    DEF Maps, Sessions, Over, Nothing, Fault, runtimeRest,
        userVars, processVars, packetVars, threadVars, queueVars, targetVars, boundVars
<1>1. CASE QueueUserCommand \/ CommandThread
  BY <1>1 DEF QueueUserCommand, CommandThread, StopCommand, ProbeCommand, CreateProcess,
         CreateFails, ProcessCreated, StartProcess, ProcessStarted, BuildLargeRequest,
         BuildFails, CommandDone, Ask, Ranges
<1>2. ASSUME NEW g \in Sessions, ProcessThread(g) PROVE Maps'
  <2>1. tpc' = [tpc EXCEPT ![g] = tpc'[g]] /\ <<tpc[g], tpc'[g]>> \in Moves
    BY <1>2, ThreadEffect DEF Effect
  <2>2. tpc' \in [Sessions -> Over \cup {"queue", "port", "connect", "loop", "send", "await", "leave",
                   "closePort", "closeQueue", "discardQueue", "discardPort"}]
    BY <2>1 DEF Moves
  <2>3. \/ current' = current
        \/ current' = [current EXCEPT ![g] = Nothing]
        \/ \E k \in Kinds : current' = [current EXCEPT ![g] = [kind |-> k, port |-> portObject]]
    <3>1. CASE DeQueuePacket(g)
      BY <3>1, PacketTaken DEF DeQueuePacket
    <3>2. CASE ~DeQueuePacket(g)
      BY <1>2, <3>2 DEF ProcessThread, CreateQueue, CreatePort, CreateObjectFails, Connect,
             ConnectFails, QueueGone, SendMessage, GetMessage, MessageFails, Leave, ClosePort,
             CloseQueue
    <3> QED
      BY <3>1, <3>2
  <2>4. current' \in [Sessions -> [kind : {"none", "start", "stop", "large", "timer"},
                               port : 0 .. MaxCommands]]
    <3>1. Nothing \in [kind : {"none", "start", "stop", "large", "timer"}, port : 0 .. MaxCommands]
      OBVIOUS
    <3>2. \A k \in Kinds : [kind |-> k, port |-> portObject]
            \in [kind : {"none", "start", "stop", "large", "timer"}, port : 0 .. MaxCommands]
      BY DEF Kinds, Ranges
    <3> HIDE DEF Nothing
    <3> QED
      BY <2>3, <3>1, <3>2
  <2>5. \/ pipe' = pipe
        \/ \E p \in {g, current[g].port, portObject}, v \in {"idle", "asked", "broken", "closed"} :
              pipe' = [pipe EXCEPT ![p] = v]
    <3>1. CASE GetMessage(g) \/ SendMessage(g) \/ ClosePort(g) \/ Connect(g)
      <4>1. CASE GetMessage(g)
        BY <4>1 DEF GetMessage
      <4>2. CASE SendMessage(g)
        BY <4>2 DEF SendMessage
      <4>3. CASE ClosePort(g)
        BY <4>3 DEF ClosePort
      <4>4. CASE Connect(g)
        BY <4>4 DEF Connect
      <4> QED
        BY <3>1, <4>1, <4>2, <4>3, <4>4
    <3>2. CASE ~(GetMessage(g) \/ SendMessage(g) \/ ClosePort(g) \/ Connect(g))
      BY <1>2, <3>2 DEF ProcessThread, CreateQueue, CreatePort, CreateObjectFails, ConnectFails,
         DeQueuePacket, QueueGone, MessageFails, Leave, CloseQueue
    <3> QED
      BY <3>1, <3>2
  <2>6. pipe' \in [Sessions -> {"none", "idle", "asked", "acked", "broken", "closed"}]
    BY <2>5
  <2> QED
    BY <2>2, <2>4, <2>6
<1>3. CASE Runtime \/ TargetExits
  BY <1>3 DEF Runtime, ConnectionBreaks, Unload, Serve, TargetExits, Broken
<1>4. CASE PostTimerPacket \/ Uninitialize \/ Exit
  BY <1>4 DEF PostTimerPacket, Uninitialize, Exit, StopAllProcess, ProcessStopped, StopTimesOut
<1> QED
  BY <1>1, <1>2, <1>3, <1>4 DEF Next

LEMMA QueuesStep ==
  ASSUME Ranges, Maps, Queues, Made, Next PROVE Queues'
<1> USE DEF queueVars, runtimeRest
<1>1. CASE UNCHANGED queue
  BY <1>1 DEF Queues
<1>2. CASE \E k \in Kinds : Queued(k)
  BY <1>2, PacketQueued
<1>3. ASSUME NEW g \in Sessions, DeQueuePacket(g) PROVE Queues'
  BY <1>3, PacketTaken DEF DeQueuePacket, Queues, Kinds
<1>4. ASSUME NEW g \in Sessions, CloseQueue(g) PROVE Queues'
  <2>1. << >> \in Seq(Kinds)
    OBVIOUS
  <2> QED
    BY <1>4, <2>1 DEF CloseQueue, Queues, Kinds
<1>5. CASE CommandThread \/ QueueUserCommand
  BY <1>1, <1>2, <1>5 DEF QueueUserCommand, CommandThread, StopCommand, ProbeCommand,
         CreateProcess, CreateFails, ProcessCreated, StartProcess, ProcessStarted,
         BuildLargeRequest, BuildFails, CommandDone, Ask, Kinds
<1>6. ASSUME NEW g \in Sessions, ProcessThread(g) PROVE Queues'
  BY <1>1, <1>3, <1>4, <1>6 DEF ProcessThread, CreateQueue, CreatePort, CreateObjectFails,
         Connect, ConnectFails, QueueGone, SendMessage, GetMessage, MessageFails, Leave,
         ClosePort
<1>7. CASE Runtime \/ TargetExits
  BY <1>1, <1>7 DEF Runtime, ConnectionBreaks, Unload, Serve, TargetExits
<1>8. CASE PostTimerPacket \/ Uninitialize \/ Exit
  BY <1>1, <1>2, <1>8 DEF PostTimerPacket, Uninitialize, Exit, StopAllProcess, ProcessStopped,
         StopTimesOut, Kinds
<1> QED
  BY <1>5, <1>6, <1>7, <1>8 DEF Next

LEMMA OpenedStep ==
  ASSUME Ranges, Opened, Next PROVE Opened'
<1> USE DEF Opened, queueVars, runtimeRest
<1>1. ASSUME NEW g \in Sessions, ProcessThread(g) PROVE Opened'
  BY <1>1 DEF ProcessThread, CreateQueue, CreatePort, CreateObjectFails, Connect,
         ConnectFails, DeQueuePacket, QueueGone, SendMessage, GetMessage, MessageFails, Leave,
         ClosePort, CloseQueue
<1>2. CASE UNCHANGED isOpen
  BY <1>2
<1>3. CASE QueueUserCommand \/ CommandThread
  BY <1>2, <1>3 DEF QueueUserCommand, CommandThread, StopCommand, ProbeCommand, CreateProcess,
         CreateFails, ProcessCreated, StartProcess, ProcessStarted, BuildLargeRequest,
         BuildFails, CommandDone, Ask
<1>4. CASE Runtime \/ TargetExits \/ PostTimerPacket \/ Uninitialize \/ Exit
  BY <1>2, <1>4 DEF Runtime, ConnectionBreaks, Unload, Serve, TargetExits,
       PostTimerPacket, Uninitialize, Exit, StopAllProcess, ProcessStopped, StopTimesOut
<1> QED
  BY <1>1, <1>3, <1>4 DEF Next

LEMMA PacketsStep ==
  ASSUME Maps, Fresh, Packets, Next PROVE Packets'
<1> USE DEF Packets, packetVars, runtimeRest
<1>1. CASE \/ held' = held
           \/ \E p \in {"command", "exit"} : held' = held \cup {p} \/ held' = held \ {p}
  BY <1>1
<1>2. CASE QueueUserCommand \/ CommandThread
  BY <1>1, <1>2 DEF QueueUserCommand, CommandThread, StopCommand, ProbeCommand, CreateProcess,
         CreateFails, ProcessCreated, StartProcess, ProcessStarted, BuildLargeRequest,
         BuildFails, CommandDone, Ask
<1>3. ASSUME NEW g \in Sessions, ProcessThread(g) PROVE Packets'
  BY <1>3, ThreadEffect DEF Effect
<1>4. CASE Runtime \/ TargetExits \/ PostTimerPacket \/ Uninitialize \/ Exit
  BY <1>1, <1>4 DEF Runtime, ConnectionBreaks, Unload, Serve, TargetExits,
       PostTimerPacket, Uninitialize, Exit, StopAllProcess, ProcessStopped, StopTimesOut
<1> QED
  BY <1>2, <1>3, <1>4 DEF Next
-----------------------------------------------------------------------------
\* The dialog is modal: one command at a time, and none when the program ends.
LEMMA ModalStep ==
  ASSUME Ranges, Maps, Fresh, Modal, Next PROVE Modal'
<1> USE DEF Modal, userVars, processVars, packetVars, threadVars, queueVars, targetVars,
            boundVars, runtimeRest
<1>1. CASE QueueUserCommand \/ CommandThread
  BY <1>1 DEF QueueUserCommand, CommandThread, StopCommand, ProbeCommand, CreateProcess,
         CreateFails, ProcessCreated, StartProcess, ProcessStarted, BuildLargeRequest,
         BuildFails, CommandDone, Ask, Callback, Fault
<1>2. ASSUME NEW g \in Sessions, ProcessThread(g) PROVE Modal'
  BY <1>2, ThreadEffect DEF Effect
<1>3. CASE Runtime \/ TargetExits \/ PostTimerPacket
  BY <1>3 DEF Runtime, ConnectionBreaks, Unload, Serve, TargetExits, PostTimerPacket, Fault
<1>4. CASE Uninitialize \/ Exit
  BY <1>4 DEF Uninitialize, Exit, StopAllProcess, ProcessStopped, StopTimesOut
<1> QED
  BY <1>1, <1>2, <1>3, <1>4 DEF Next

\* A process that is not listed gets one thread, of the command at work.
LEMMA UnlistedStep ==
  ASSUME Ranges, Maps, Fresh, Modal, Unlisted, Next PROVE Unlisted'
<1> USE DEF Unlisted, Alive, Over, Maps, userVars, processVars, packetVars, threadVars,
            queueVars, targetVars, boundVars, runtimeRest
<1>1. CASE QueueUserCommand \/ CommandThread
  BY <1>1 DEF Modal, QueueUserCommand, CommandThread, StopCommand, ProbeCommand,
         CreateProcess, CreateFails, ProcessCreated, StartProcess, ProcessStarted,
         BuildLargeRequest, BuildFails, CommandDone, Ask, Callback, Fault
<1>2. ASSUME NEW g \in Sessions, ProcessThread(g) PROVE Unlisted'
  BY <1>2, ThreadEffect DEF Effect, Moves
<1>3. CASE Runtime \/ TargetExits \/ PostTimerPacket
  BY <1>3 DEF Runtime, ConnectionBreaks, Unload, Serve, TargetExits, PostTimerPacket, Fault
<1>4. CASE Uninitialize \/ Exit
  BY <1>4 DEF Uninitialize, Exit, StopAllProcess, ProcessStopped, StopTimesOut
<1> QED
  BY <1>1, <1>2, <1>3, <1>4 DEF Next

\* The queue and the port of the process are there before they are used.
LEMMA MadeStep ==
  ASSUME Ranges, Maps, Fresh, Modal, Unlisted, Made, Next PROVE Made'
<1> USE DEF Made, Over, Maps, Sessions, userVars, processVars, packetVars, threadVars,
            queueVars, targetVars, boundVars, runtimeRest
<1>1. CASE CreateProcess
  BY <1>1 DEF CreateProcess, Unlisted, Alive, Modal, Ranges
<1>2. CASE QueueUserCommand \/ (CommandThread /\ ~CreateProcess)
  BY <1>2 DEF QueueUserCommand, CommandThread, StopCommand, ProbeCommand, CreateFails,
         ProcessCreated, StartProcess, ProcessStarted, BuildLargeRequest, BuildFails,
         CommandDone, Ask, Callback, Fault
<1>3. ASSUME NEW g \in Sessions, ProcessThread(g) PROVE Made'
  <2>1. Effect(g)
    BY <1>3, ThreadEffect
  <2>2. g # 0
    BY ControlAssumption
  <2>3. queueObject' = 0 => queueObject = 0 /\ ~(tpc[g] = "queue" /\ tpc'[g] = "port")
    BY <2>1, <2>2 DEF Effect
  <2>4. portObject' = 0 => portObject = 0 /\ tpc'[g] # "connect"
    BY <2>1, <2>2 DEF Effect
  <2>5. /\ \A h \in Sessions : h # g => tpc'[h] = tpc[h]
        /\ <<tpc[g], tpc'[g]>> \in Moves
    BY <2>1 DEF Effect
  <2>6. ASSUME queueObject' = 0, NEW h \in Sessions PROVE tpc'[h] \in Over \cup {"queue"}
    BY <2>3, <2>5, <2>6 DEF Moves
  <2>7. ASSUME portObject' = 0, NEW h \in Sessions PROVE tpc'[h] \in Over \cup {"queue", "port"}
    BY <2>4, <2>5, <2>7 DEF Moves
  <2> QED
    BY <2>6, <2>7
<1>4. CASE Runtime \/ TargetExits \/ PostTimerPacket
  BY <1>4 DEF Runtime, ConnectionBreaks, Unload, Serve, TargetExits, PostTimerPacket, Fault
<1>5. CASE Uninitialize \/ Exit
  BY <1>5 DEF Uninitialize, Exit, StopAllProcess, ProcessStopped, StopTimesOut
<1> QED
  BY <1>1, <1>2, <1>3, <1>4, <1>5 DEF Next

\* Queues are made by the threads of commands that were given.
LEMMA NumberedStep ==
  ASSUME Ranges, Maps, Fresh, Numbered, Next PROVE Numbered'
<1> USE DEF Numbered, Ranges, userVars, processVars, packetVars, threadVars, queueVars,
            targetVars, boundVars, runtimeRest
<1>1. CASE QueueUserCommand
  BY <1>1 DEF QueueUserCommand
<1>2. CASE CommandThread
  BY <1>2 DEF CommandThread, StopCommand, ProbeCommand, CreateProcess, CreateFails,
         ProcessCreated, StartProcess, ProcessStarted, BuildLargeRequest, BuildFails,
         CommandDone, Ask, Callback, Fault
<1>3. ASSUME NEW g \in Sessions, ProcessThread(g) PROVE Numbered'
  <2>1. tpc[g] = "queue" => g <= issued
    BY DEF Fresh, Sessions
  <2>2. Effect(g)
    BY <1>3, ThreadEffect
  <2> QED
    BY <2>1, <2>2 DEF Effect
<1>4. CASE Runtime \/ TargetExits \/ PostTimerPacket
  BY <1>4 DEF Runtime, ConnectionBreaks, Unload, Serve, TargetExits, PostTimerPacket, Fault
<1>5. CASE Uninitialize \/ Exit
  BY <1>5 DEF Uninitialize, Exit, StopAllProcess, ProcessStopped, StopTimesOut
<1> QED
  BY <1>1, <1>2, <1>3, <1>4, <1>5 DEF Next

\* A process thread opens no queue but its own, and adds to none.
LEMMA ThreadQueues ==
  ASSUME Ranges, Maps, Queues, Opened, Made, NEW g \in Sessions, ProcessThread(g)
  PROVE  \A h \in Sessions : /\ isOpen[h] \/ queue'[h] \in {queue[h], << >>}
                             /\ isOpen'[h] =>
                                isOpen[h] \/ (h = g /\ tpc[g] = "queue" /\ tpc'[g] = "port")
<1> USE DEF Maps, Queues, Opened, queueVars
<1>1. CASE CreateQueue(g)
  BY <1>1 DEF CreateQueue, Step
<1>2. CASE DeQueuePacket(g)
  BY <1>2, PacketTaken DEF DeQueuePacket
<1>3. CASE CloseQueue(g)
  BY <1>3 DEF CloseQueue
<1>4. CASE UNCHANGED queueVars
  BY <1>4
<1> QED
  BY <1>1, <1>2, <1>3, <1>4 DEF ProcessThread, CreatePort, CreateObjectFails, Connect,
         ConnectFails, QueueGone, SendMessage, GetMessage, MessageFails, Leave, ClosePort

\* A thread holds a packet while it talks to the runtime, and then only.
LEMMA ThreadPacket ==
  ASSUME Ranges, Maps, Queues, Opened, Made, Fresh, NEW g \in Sessions, ProcessThread(g)
  PROVE  /\ tpc'[g] \notin Talking \cup {"gone"} => current'[g] = Nothing
         /\ tpc'[g] \in Talking => current'[g].kind \in Kinds
         /\ tpc'[g] = "send" => current'[g].port = portObject
         /\ tpc'[g] = "await" => current'[g] = current[g] /\ tpc[g] = "send"
<1> USE DEF Maps, Fresh, Step, Talking, Kinds
<1>1. CASE CreateQueue(g) \/ CreatePort(g) \/ Connect(g) \/ ConnectFails(g)
  BY <1>1 DEF CreateQueue, CreatePort, Connect, ConnectFails
<1>2. CASE CreateObjectFails(g)
  BY <1>2 DEF CreateObjectFails
<1>3. CASE DeQueuePacket(g)
  BY <1>3, PacketTaken DEF DeQueuePacket
<1>4. CASE QueueGone(g) \/ SendMessage(g) \/ Leave(g) \/ ClosePort(g) \/ CloseQueue(g)
  BY <1>4 DEF QueueGone, SendMessage, Leave, ClosePort, CloseQueue
<1>5. CASE GetMessage(g)
  BY <1>5 DEF GetMessage
<1>6. CASE MessageFails(g)
  BY <1>6 DEF MessageFails
<1> QED
  BY <1>1, <1>2, <1>3, <1>4, <1>5, <1>6 DEF ProcessThread

\* The steps of the threads keep the others, and those not begun, fresh ...
LEMMA FreshThread ==
  ASSUME Ranges, Maps, Queues, Opened, Made, Fresh, NEW g \in Sessions, ProcessThread(g) PROVE Fresh'
<1>1. Effect(g)
  BY ThreadEffect
<1>2. ASSUME NEW h \in Sessions, h > issued' \/ (h = issued' /\ cpc' \in {"probe", "create"})
      PROVE  tpc'[h] = "unborn"
  BY <1>1, <1>2 DEF Effect, Moves, Maps, Fresh, userVars
<1>3. ASSUME NEW h \in Sessions, tpc'[h] \in {"unborn", "queue"}
      PROVE  queue'[h] = << >> /\ ~isOpen'[h]
  <2>1. h # g /\ tpc'[h] = tpc[h]
    BY <1>1, <1>3 DEF Effect, Moves, Maps
  <2>2. queue[h] = << >> /\ ~isOpen[h]
    BY <1>3, <2>1 DEF Fresh
  <2>3. isOpen[h] \/ queue'[h] \in {queue[h], << >>}
    BY ThreadQueues
  <2>4. isOpen'[h] => isOpen[h] \/ h = g
    BY ThreadQueues
  <2>5. queue'[h] = << >>
    BY <2>2, <2>3
  <2> QED
    BY <2>1, <2>2, <2>4, <2>5, Zenon
<1>4. ASSUME NEW h \in Sessions
      PROVE  /\ tpc'[h] \notin Talking \cup {"gone"} => current'[h] = Nothing
             /\ tpc'[h] \in Talking => current'[h].kind \in Kinds
  <2>1. CASE h = g
    BY <2>1, ThreadPacket
  <2>2. CASE h # g
    <3>1. tpc'[h] = tpc[h] /\ current'[h] = current[h]
      BY <1>1, <2>2 DEF Effect, Maps
    <3> QED
      BY <3>1 DEF Fresh
  <2> QED
    BY <2>1, <2>2
<1> QED
  BY <1>2, <1>3, <1>4 DEF Fresh

\* ... and so do all steps.
LEMMA FreshStep ==
  ASSUME Ranges, Maps, Queues, Opened, Modal, Made, Numbered, Fresh, Next PROVE Fresh'
<1> USE DEF Fresh, Nothing, Talking, Maps, Sessions, userVars, processVars, packetVars,
            threadVars, queueVars, targetVars, boundVars, runtimeRest
<1>1. CASE QueueUserCommand
  BY <1>1, ControlAssumption DEF QueueUserCommand, Modal, Ranges
<1>2. CASE CreateProcess
  BY <1>2, ControlAssumption DEF CreateProcess, Ranges
<1>3. ASSUME UNCHANGED <<tpc, current, isOpen, issued>>,
             cpc' \in {"probe", "create"} => cpc \in {"probe", "create"},
             \A g \in Sessions : isOpen[g] \/ queue'[g] = queue[g]
      PROVE  Fresh'
  BY <1>3
<1>4. ASSUME NEW k \in Kinds, Queued(k), UNCHANGED <<tpc, current, isOpen, issued>>,
             cpc' \in {"probe", "create"} => cpc \in {"probe", "create"}
      PROVE  Fresh'
  BY <1>3, <1>4, PacketQueued
<1>5. CASE StopCommand
  BY <1>3, <1>4, <1>5 DEF StopCommand, Ask, Callback, Kinds
<1>6. CASE StartProcess
  BY <1>3, <1>4, <1>6 DEF StartProcess, Ask, Kinds
<1>7. CASE BuildLargeRequest
  BY <1>4, <1>7 DEF BuildLargeRequest, Ask, Kinds
<1>8. CASE ProbeCommand \/ CreateFails \/ ProcessStarted \/ BuildFails \/ CommandDone
  BY <1>3, <1>8 DEF ProbeCommand, CreateFails, ProcessStarted, BuildFails, CommandDone, Callback
<1>9. CASE ProcessCreated
  <2>1. /\ tpc' \in {tpc, [tpc EXCEPT ![issued] = "gone"]}
        /\ cpc' \notin {"probe", "create"} /\ UNCHANGED <<current, queue, isOpen, issued>>
    BY <1>9 DEF ProcessCreated, Callback
  <2>2. \A g \in Sessions : tpc'[g] = tpc[g] \/ (tpc'[g] = "gone" /\ g = issued)
    BY <2>1
  <2>3. \A g \in Sessions : g > issued' => tpc'[g] = "unborn"
    BY <2>1, <2>2 DEF Ranges
  <2> QED
    BY <2>1, <2>2, <2>3
<1>10. ASSUME NEW g \in Sessions, ProcessThread(g) PROVE Fresh'
  BY <1>10, FreshThread
<1>11. CASE Runtime \/ TargetExits \/ Uninitialize
  BY <1>3, <1>11 DEF Runtime, ConnectionBreaks, Unload, Serve, TargetExits, Uninitialize
<1>12. CASE PostTimerPacket
  BY <1>4, <1>12 DEF PostTimerPacket, Kinds
<1>13. CASE StopAllProcess
  BY <1>3, <1>4, <1>13 DEF StopAllProcess, Kinds
<1>14. CASE ProcessStopped
  BY <1>3, <1>14 DEF ProcessStopped
<1>15. CASE StopTimesOut
  <2>1. queueObject <= issued /\ cpc' = "idle" /\ issued' = issued
    BY <1>15 DEF StopTimesOut, Numbered, Modal
  <2>2. \A g \in Sessions : tpc'[g] = (IF g = queueObject THEN "gone" ELSE tpc[g])
    BY <1>15 DEF StopTimesOut
  <2>3. \A g \in Sessions : g > issued' => tpc'[g] = "unborn"
    BY <2>1, <2>2 DEF Ranges
  <2> QED
    BY <1>15, <2>1, <2>2, <2>3 DEF StopTimesOut
<1> QED
  BY <1>1, <1>2, <1>5, <1>6, <1>7, <1>8, <1>9, <1>10, <1>11, <1>12, <1>13, <1>14, <1>15
     DEF Next, CommandThread, Exit
-----------------------------------------------------------------------------
\* An overlap is never forgotten.
LEMMA OverlapStays ==
  ASSUME Flags, Maps, Fresh, Next, ~overlap' PROVE ~overlap
<1> USE DEF Flags, userVars, processVars, packetVars, threadVars, queueVars, targetVars,
            boundVars, runtimeRest
<1>1. CASE QueueUserCommand \/ CommandThread
  BY <1>1 DEF CommandThread, QueueUserCommand, StopCommand, ProbeCommand, CreateProcess,
         CreateFails, ProcessCreated, StartProcess, ProcessStarted, BuildLargeRequest,
         BuildFails, CommandDone, Ask, Callback, Fault
<1>2. ASSUME NEW g \in Sessions, ProcessThread(g) PROVE ~overlap
  BY <1>2, ThreadEffect DEF Effect
<1>3. CASE Runtime \/ TargetExits \/ PostTimerPacket \/ Uninitialize \/ Exit
  BY <1>3 DEF Runtime, ConnectionBreaks, Unload, Serve, TargetExits, PostTimerPacket,
         Uninitialize, Exit, StopAllProcess, ProcessStopped, StopTimesOut
<1> QED
  BY <1>1, <1>2, <1>3 DEF Next

\* A step of the one thread alive keeps it the only one ...
LEMMA OneSessionThread ==
  ASSUME Ranges, Maps, Queues, Opened, Fresh, Made, OneSession, NEW g \in Sessions, ProcessThread(g)
  PROVE  OneSession'
<1>1. Effect(g)
  BY ThreadEffect
<1>2. \A h \in Sessions : Alive(h) => h = g
  BY <1>1 DEF OneSession, Alive, Over, Effect, Moves
<1>3. \A h \in Sessions : h # g => tpc'[h] = tpc[h] /\ ~Alive(h)
  BY <1>1, <1>2 DEF Effect, Maps
<1>4. tpc'[g] \notin Over \cup {"queue"} => queueObject' = g
  BY <1>1 DEF OneSession, Alive, Over, Effect, Moves
<1>5. tpc'[g] \notin Over \cup {"queue", "port"} => portObject' = g
  BY <1>1 DEF OneSession, Alive, Over, Effect, Moves
<1>6. tpc'[g] \in Talking => current'[g].port = g
  BY <1>1, ThreadPacket DEF OneSession, Alive, Over, Effect, Moves, Talking
<1>7. tpc'[g] \in {"queue", "port", "connect"} => cpc' = "created" /\ g = issued' /\ ~event'
  BY <1>1 DEF OneSession, Alive, Over, Effect, Moves, Active, userVars
<1> QED
  BY <1>3, <1>4, <1>5, <1>6, <1>7 DEF OneSession, Alive, Over, Talking

\* ... and a thread is created when no other is alive, or they overlap.
LEMMA OneSessionStep ==
  ASSUME Flags, Ranges, Maps, Queues, Opened, Fresh, Modal, Made, OneSession, ~overlap', Next
  PROVE  OneSession'
<1> USE DEF OneSession, Alive, Over, Talking, Maps, Modal, userVars, processVars, packetVars,
            threadVars, queueVars, targetVars, boundVars, runtimeRest
<1>1. CASE QueueUserCommand
  BY <1>1 DEF QueueUserCommand
<1>2. CASE CreateProcess
  <2>1. \A g \in Sessions : tpc[g] \in Over
    BY <1>2 DEF CreateProcess, Flags
  <2>2. /\ \A g \in Sessions : tpc'[g] = (IF g = issued THEN "queue" ELSE tpc[g])
        /\ cpc' = "created" /\ issued' = issued /\ event' = FALSE
    BY <1>2 DEF CreateProcess
  <2> QED
    BY <2>1, <2>2
<1>3. CASE ProcessCreated
  <2>1. \A g \in Sessions : tpc'[g] \in {tpc[g], "gone"}
    BY <1>3 DEF ProcessCreated
  <2>2. UNCHANGED <<queueObject, portObject, current>> /\ event
    BY <1>3 DEF ProcessCreated
  <2> QED
    BY <2>1, <2>2
<1>4. CASE StopCommand \/ StartProcess \/ BuildLargeRequest
  <2>1. UNCHANGED <<queueObject, portObject, tpc, current>> /\ cpc # "created"
    BY <1>4 DEF StopCommand, StartProcess, BuildLargeRequest, Ask, Callback
  <2> QED
    BY <2>1
<1>5. CASE ProbeCommand \/ CreateFails \/ ProcessStarted \/ BuildFails \/ CommandDone
  <2>1. UNCHANGED <<queueObject, portObject, tpc, current>> /\ cpc # "created"
    BY <1>5 DEF ProbeCommand, CreateFails, ProcessStarted, BuildFails, CommandDone
  <2> QED
    BY <2>1
<1>6. ASSUME NEW g \in Sessions, ProcessThread(g) PROVE OneSession'
  BY <1>6, OneSessionThread
<1>7. CASE Runtime \/ TargetExits \/ PostTimerPacket \/ Uninitialize
  <2>1. UNCHANGED <<queueObject, portObject, tpc, current, cpc, issued, event>>
    BY <1>7 DEF Runtime, ConnectionBreaks, Unload, Serve, TargetExits, PostTimerPacket,
           Uninitialize
  <2> QED
    BY <2>1
<1>8. CASE StopAllProcess
  <2>1. UNCHANGED <<queueObject, portObject, tpc, current>> /\ cpc # "created"
    BY <1>8 DEF StopAllProcess
  <2> QED
    BY <2>1
<1>9. CASE ProcessStopped \/ StopTimesOut
  <2>1. /\ \A g \in Sessions : tpc'[g] \in {tpc[g], "gone"}
        /\ UNCHANGED <<queueObject, portObject, current>> /\ cpc # "created"
    BY <1>9 DEF ProcessStopped, StopTimesOut
  <2> QED
    BY <2>1
<1> QED
  BY <1>1, <1>2, <1>3, <1>4, <1>5, <1>6, <1>7, <1>8, <1>9 DEF Next, CommandThread, Exit

\* No control packet is handled or queued: all of them were answered, or none
\* was ever queued to the thread.
NoControl(g) == ~Control(current[g].kind) /\ \A i \in DOMAIN queue[g] : ~Control(queue[g][i])

\* When the event is set, or nothing is waited for, no control packet is about.
LEMMA Calm ==
  ASSUME NEW g \in Sessions, OnePacketOf(g), event \/ Expected = "none"
  PROVE  NoControl(g)
<1>1. CASE event
  BY <1>1 DEF OnePacketOf, NoControl
<1>2. CASE Expected = "none"
  BY <1>2 DEF OnePacketOf, NoControl, Control
<1> QED
  BY <1>1, <1>2

\* ... and then there is at most one.
LEMMA NoControlEnough ==
  ASSUME NEW g \in Sessions, NoControl(g) PROVE OnePacketOf(g)
BY DEF NoControl, OnePacketOf

\* The thread takes, sends and completes the packet that is waited for.
LEMMA OnePacketThread ==
  ASSUME Flags, Ranges, Maps, Queues, Opened, Fresh, Modal, Made, OneSession, OnePacket,
         NEW g \in Sessions, ProcessThread(g)
  PROVE  OnePacketOf(g)'
<1>1. OnePacketOf(g)
  BY DEF OnePacket, ProcessThread, CreateQueue, CreatePort, CreateObjectFails, Connect,
         ConnectFails, DeQueuePacket, QueueGone, SendMessage, GetMessage, MessageFails, Leave,
         ClosePort, CloseQueue, Step, Alive, Over
<1>2. Expected' = Expected
  BY ThreadEffect DEF Effect, Expected
<1>3. ASSUME UNCHANGED <<event, queue, current>> PROVE OnePacketOf(g)'
  BY <1>1, <1>2, <1>3 DEF OnePacketOf
<1>4. ASSUME NoControl(g), queue'[g] \in {queue[g], << >>}, current'[g] \in {current[g], Nothing}
      PROVE OnePacketOf(g)'
  <2>1. NoControl(g)'
    BY <1>4 DEF NoControl, Control, Nothing
  <2> QED
    BY <2>1 DEF NoControl, OnePacketOf
<1>5. CASE CreateQueue(g) \/ CreatePort(g) \/ CreateObjectFails(g) \/ QueueGone(g) \/ SendMessage(g)
           \/ Leave(g) \/ ClosePort(g)
  BY <1>3, <1>5 DEF CreateQueue, CreatePort, CreateObjectFails, QueueGone, SendMessage, Leave,
         ClosePort, packetVars, queueVars, threadVars
<1>6. CASE Connect(g) \/ ConnectFails(g)
  <2>1. cpc = "created" /\ phase = "running"
    BY <1>6 DEF Connect, ConnectFails, Step, OneSession, Modal, Ranges
  <2>2. NoControl(g)
    BY <1>1, <2>1, Calm DEF Expected
  <2> QED
    BY <1>4, <1>6, <2>2 DEF Connect, ConnectFails, queueVars
<1>7. CASE CloseQueue(g)
  <2>1. queueObject = g /\ tpc[g] \in {"closeQueue", "discardQueue"}
    BY <1>7 DEF CloseQueue, Step, OneSession, Alive, Over
  <2>2. current[g] = Nothing /\ current' = current /\ queue'[g] = << >>
    BY <1>7, <2>1 DEF CloseQueue, Fresh, Talking, Queues
  <2> QED
    BY <2>2 DEF OnePacketOf, Nothing, Control
<1>8. CASE DeQueuePacket(g)
  <2> DEFINE q == queue[g]
             kind == Head(queue[g])
  <2>1. tpc[g] = "loop" /\ queueObject = g /\ current[g] = Nothing
    BY <1>8 DEF DeQueuePacket, OneSession, Alive, Over, Fresh, Talking
  <2>2. q \in Seq(Kinds) /\ q # << >> /\ kind = q[1] /\ 1 \in DOMAIN q
    BY <1>8, <2>1, PacketTaken
  <2>3. /\ queue'[g] = Tail(q) /\ DOMAIN Tail(q) = 1 .. Len(q) - 1
        /\ \A i \in DOMAIN Tail(q) : Tail(q)[i] = q[i + 1] /\ i + 1 \in DOMAIN q /\ i + 1 # 1
    BY <1>8, <2>1, <2>2 DEF DeQueuePacket, Queues
  <2>4. Control(kind) => ~event /\ kind = Expected /\ \A i \in DOMAIN Tail(q) : ~Control(Tail(q)[i])
    BY <1>1, <2>2, <2>3 DEF OnePacketOf
  <2>5. CASE Asks(kind)
    <3>1. current'[g].kind = kind /\ event' = event
      BY <1>8, <2>1, <2>5 DEF DeQueuePacket, Maps, packetVars
    <3>2. \A i \in DOMAIN Tail(q) : Control(Tail(q)[i]) => ~event /\ Tail(q)[i] = Expected
      BY <1>1, <2>3 DEF OnePacketOf
    <3>3. \A i, j \in DOMAIN Tail(q) : Control(Tail(q)[i]) /\ Control(Tail(q)[j]) => i = j
      BY <1>1, <2>2, <2>3 DEF OnePacketOf
    <3> QED
      BY <1>2, <2>3, <2>4, <3>1, <3>2, <3>3 DEF OnePacketOf
  <2>6. CASE ~Asks(kind)
    <3>1. Control(kind)
      BY <2>2, <2>6 DEF Asks, Control, Kinds
    <3>2. current'[g] = Nothing
      BY <1>8, <2>1, <2>6 DEF DeQueuePacket
    <3> QED
      BY <2>3, <2>4, <3>1, <3>2 DEF OnePacketOf, Control, Nothing
  <2> QED
    BY <2>5, <2>6
<1>9. CASE GetMessage(g)
  <2>1. queue' = queue /\ current'[g] = Nothing /\ (event' = event \/ Control(current[g].kind))
    BY <1>9 DEF GetMessage, Step, Fresh, Talking, Kinds, packetVars, queueVars, Control, Maps
  <2>2. CASE Control(current[g].kind)
    <3>1. \A i \in DOMAIN queue'[g] : ~Control(queue'[g][i])
      BY <1>1, <2>1, <2>2 DEF OnePacketOf
    <3> QED
      BY <2>1, <3>1 DEF OnePacketOf, Control, Nothing
  <2>3. CASE event' = event
    BY <1>1, <1>2, <2>1, <2>3 DEF OnePacketOf, Control, Nothing
  <2> QED
    BY <2>1, <2>2, <2>3
<1>10. CASE MessageFails(g)
  <2>1. queue' = queue /\ current'[g] = Nothing /\ (event' = event \/ Control(current[g].kind))
    BY <1>10 DEF MessageFails, Step, Fresh, Talking, Kinds, packetVars, queueVars, Control, Maps
  <2>2. CASE Control(current[g].kind)
    <3>1. \A i \in DOMAIN queue'[g] : ~Control(queue'[g][i])
      BY <1>1, <2>1, <2>2 DEF OnePacketOf
    <3> QED
      BY <2>1, <3>1 DEF OnePacketOf, Control, Nothing
  <2>3. CASE event' = event
    BY <1>1, <1>2, <2>1, <2>3 DEF OnePacketOf, Control, Nothing
  <2> QED
    BY <2>1, <2>2, <2>3
<1> QED
  BY <1>5, <1>6, <1>7, <1>8, <1>9, <1>10 DEF ProcessThread

\* Steps of the command thread and of the exit that queue no packet ...
LEMMA OnePacketCalm ==
  ASSUME OnePacket, event \/ Expected = "none", \A g \in Sessions : tpc'[g] \in {tpc[g], "gone"},
         UNCHANGED <<current, queue>>
  PROVE  OnePacket'
<1>1. ASSUME NEW g \in Sessions, Alive(g)' PROVE NoControl(g)
  <2>1. Alive(g)
    BY <1>1 DEF Alive, Over
  <2> QED
    BY <2>1, Calm DEF OnePacket
<1>2. ASSUME NEW g \in Sessions, Alive(g)' PROVE OnePacketOf(g)'
  BY <1>1, <1>2 DEF NoControl, OnePacketOf
<1> QED
  BY <1>2 DEF OnePacket

\* ... and those that queue one, when no other is about.
LEMMA OnePacketAsked ==
  ASSUME Ranges, Maps, Queues, OnePacket, Expected = "none",
         NEW k \in Kinds, Queued(k), Expected' = k, ~event', UNCHANGED <<tpc, current>>
  PROVE  OnePacket'
<1> SUFFICES ASSUME NEW g \in Sessions, Alive(g)' PROVE OnePacketOf(g)'
  BY DEF OnePacket
<1>1. NoControl(g)
  BY Calm DEF OnePacket, Alive
<1>2. CASE queue'[g] = queue[g]
  BY <1>1, <1>2 DEF NoControl, OnePacketOf
<1>3. CASE queue'[g] = Append(queue[g], k)
  <2>1. queue[g] \in Seq(Kinds)
    BY DEF Queues, Kinds
  <2>2. /\ DOMAIN queue'[g] = 1 .. Len(queue[g]) + 1 /\ DOMAIN queue[g] = 1 .. Len(queue[g])
        /\ Len(queue[g]) \in Nat
        /\ queue'[g][Len(queue[g]) + 1] = k
        /\ \A i \in 1 .. Len(queue[g]) : queue'[g][i] = queue[g][i]
    BY <1>3, <2>1
  <2>3. \A i \in DOMAIN queue'[g] : Control(queue'[g][i]) => i = Len(queue[g]) + 1 /\ queue'[g][i] = k
    BY <1>1, <2>2 DEF NoControl
  <2>4. ~Control(current'[g].kind)
    BY <1>1 DEF NoControl
  <2> QED
    BY <2>3, <2>4 DEF OnePacketOf
<1> QED
  BY <1>2, <1>3, PacketQueued

\* There is one control packet at a time, until a session overlaps another.
LEMMA OnePacketStep ==
  ASSUME Flags, Ranges, Maps, Queues, Opened, Fresh, Modal, Made, OneSession, OnePacket, ~overlap', Next
  PROVE  OnePacket'
<1> USE DEF userVars, processVars, packetVars, threadVars, queueVars, targetVars, boundVars,
            runtimeRest
<1>1. CASE QueueUserCommand
  <2>1. Expected = "none"
    BY <1>1 DEF QueueUserCommand, Expected, Modal
  <2> QED
    BY <1>1, <2>1, OnePacketCalm DEF QueueUserCommand
<1>2. CASE StopCommand
  <2>1. Expected = "none"
    BY <1>2 DEF StopCommand, Expected, Modal
  <2>2. CASE Callback("ok") /\ UNCHANGED <<tpc, current, queue>>
    BY <2>1, <2>2, OnePacketCalm
  <2>3. CASE Ask("stop", "stopped") /\ UNCHANGED phase
    BY <2>1, <2>3, OnePacketAsked DEF Ask, Expected, Kinds
  <2> QED
    BY <1>2, <2>2, <2>3 DEF StopCommand
<1>3. CASE ProbeCommand \/ CreateFails \/ BuildFails
  <2>1. Expected = "none"
    BY <1>3 DEF ProbeCommand, CreateFails, BuildFails, Expected, Modal
  <2> QED
    BY <1>3, <2>1, OnePacketCalm DEF ProbeCommand, CreateFails, BuildFails
<1>4. CASE CreateProcess
  <2>1. \A g \in Sessions : tpc[g] \in Over
    BY <1>4 DEF CreateProcess, Flags
  <2>2. /\ \A g \in Sessions : tpc'[g] = (IF g = issued THEN "queue" ELSE tpc[g])
        /\ UNCHANGED <<current, queue>> /\ cpc = "create"
    BY <1>4 DEF CreateProcess, Maps
  <2>3. ASSUME NEW g \in Sessions, Alive(g)' PROVE queue'[g] = << >> /\ current'[g] = Nothing
    BY <2>1, <2>2, <2>3 DEF Alive, Fresh, Talking
  <2>4. ASSUME NEW g \in Sessions, Alive(g)' PROVE OnePacketOf(g)'
    BY <2>3, <2>4 DEF OnePacketOf, Nothing, Control
  <2> QED
    BY <2>4 DEF OnePacket
<1>5. CASE ProcessCreated \/ ProcessStarted \/ CommandDone
  <2>1. event /\ \A g \in Sessions : tpc'[g] \in {tpc[g], "gone"}
    BY <1>5 DEF ProcessCreated, ProcessStarted, CommandDone, Maps
  <2> QED
    BY <1>5, <2>1, OnePacketCalm DEF ProcessCreated, ProcessStarted, CommandDone
<1>6. CASE StartProcess
  <2>1. Expected = "none"
    BY <1>6 DEF StartProcess, Expected, Modal
  <2>2. CASE UNCHANGED <<tpc, current, queue>>
    BY <2>1, <2>2, OnePacketCalm
  <2>3. CASE Ask("start", "started") /\ UNCHANGED phase
    BY <2>1, <2>3, OnePacketAsked DEF Ask, Expected, Kinds
  <2> QED
    BY <1>6, <2>2, <2>3 DEF StartProcess
<1>7. CASE BuildLargeRequest
  <2>1. Expected = "none"
    BY <1>7 DEF BuildLargeRequest, Expected, Modal
  <2> QED
    BY <1>7, <2>1, OnePacketAsked DEF BuildLargeRequest, Ask, Expected, Kinds
<1>8. ASSUME NEW g \in Sessions, ProcessThread(g) PROVE OnePacket'
  <2>1. Effect(g)
    BY <1>8, ThreadEffect
  <2>2. ASSUME NEW h \in Sessions, Alive(h)' PROVE h = g
    BY <2>1, <2>2 DEF Effect, Moves, OneSession, Alive, Over, Maps
  <2> QED
    BY <1>8, <2>2, OnePacketThread DEF OnePacket
<1>9. ASSUME UNCHANGED <<tpc, current, queue, event>>, Expected' = Expected PROVE OnePacket'
  BY <1>9 DEF OnePacket, OnePacketOf, Alive
<1>10. CASE Runtime \/ TargetExits
  <2>1. UNCHANGED <<tpc, current, queue, event>> /\ Expected' = Expected
    BY <1>10 DEF Runtime, ConnectionBreaks, Unload, Serve, TargetExits, Fault, Expected
  <2> QED
    BY <1>9, <2>1
<1>11. CASE PostTimerPacket
  <2>1. /\ UNCHANGED <<tpc, current, event>> /\ Expected' = Expected /\ Queued("timer")
    BY <1>11 DEF PostTimerPacket, Expected
  <2>2. ASSUME NEW g \in Sessions, Alive(g)' PROVE OnePacketOf(g)'
    <3>1. OnePacketOf(g)
      BY <2>1, <2>2 DEF OnePacket, Alive
    <3>2. CASE queue'[g] = queue[g]
      BY <2>1, <3>1, <3>2 DEF OnePacketOf
    <3>3. CASE queue'[g] = Append(queue[g], "timer")
      <4>1. queue[g] \in Seq(Kinds)
        BY DEF Queues, Kinds
      <4>2. /\ DOMAIN queue'[g] = 1 .. Len(queue[g]) + 1 /\ DOMAIN queue[g] = 1 .. Len(queue[g])
            /\ Len(queue[g]) \in Nat
            /\ queue'[g][Len(queue[g]) + 1] = "timer"
            /\ \A i \in 1 .. Len(queue[g]) : queue'[g][i] = queue[g][i]
        BY <3>3, <4>1 DEF Kinds
      <4>3. \A i \in DOMAIN queue'[g] : Control(queue'[g][i]) =>
              i \in DOMAIN queue[g] /\ queue'[g][i] = queue[g][i]
        BY <4>2 DEF Control
      <4> QED
        BY <2>1, <3>1, <4>3 DEF OnePacketOf
    <3> QED
      BY <2>1, <3>2, <3>3, PacketQueued DEF Kinds
  <2> QED
    BY <2>2 DEF OnePacket
<1>12. CASE Uninitialize
  <2>1. Expected = "none"
    BY <1>12 DEF Uninitialize, Expected, Modal
  <2> QED
    BY <1>12, <2>1, OnePacketCalm DEF Uninitialize
<1>13. CASE StopAllProcess
  <2>1. Expected = "none" /\ cpc = "idle"
    BY <1>13 DEF StopAllProcess, Expected, Modal
  <2>2. CASE queue' = queue
    BY <1>13, <2>1, <2>2, OnePacketCalm DEF StopAllProcess
  <2>3. CASE Queued("stop") /\ phase' = "wait" /\ event' = FALSE
    BY <1>13, <2>1, <2>3, OnePacketAsked DEF StopAllProcess, Expected, Kinds
  <2> QED
    BY <1>13, <2>2, <2>3 DEF StopAllProcess
<1>14. CASE ProcessStopped
  BY <1>14, OnePacketCalm DEF ProcessStopped
<1>15. CASE StopTimesOut
  <2>1. cpc # "created"
    BY <1>15 DEF StopTimesOut, Modal
  <2>2. \A g \in Sessions : Alive(g) => g = queueObject
    BY <2>1 DEF OneSession, Alive
  <2>3. \A g \in Sessions : ~Alive(g)'
    BY <1>15, <2>2 DEF StopTimesOut, Alive, Over
  <2> QED
    BY <2>3 DEF OnePacket
<1> QED
  BY <1>1, <1>2, <1>3, <1>4, <1>5, <1>6, <1>7, <1>8, <1>10, <1>11, <1>12, <1>13, <1>14, <1>15
     DEF Next, CommandThread, Exit

\* A thread reads the pipe it wrote to, and asks when nothing is on it.
LEMMA AnswersThread ==
  ASSUME Ranges, Maps, Queues, Opened, Fresh, Made, OneSession, Answers,
         NEW g \in Sessions, ProcessThread(g)
  PROVE  Answers'
<1>1. Effect(g)
  BY ThreadEffect
<1>2. \A h \in Sessions : h # g => tpc'[h] = tpc[h] /\ tpc[h] # "await"
  BY <1>1 DEF Effect, Moves, OneSession, Alive, Over, Maps
<1>3. \/ pipe' = pipe /\ (pipe[g] \in {"asked", "acked"} => tpc[g] # "await" \/ tpc'[g] = "await")
      \/ \E v \in {"idle", "broken", "closed"} : pipe' = [pipe EXCEPT ![g] = v]
      \/ tpc'[g] = "await" /\ pipe' = [pipe EXCEPT ![g] = "asked"]
  <2>1. tpc[g] \in Talking => current[g].port = g
    BY DEF OneSession
  <2>2. tpc[g] \in {"closePort", "discardPort"} => portObject = g
    BY DEF OneSession, Alive, Over
  <2>3. CASE GetMessage(g)
    BY <2>1, <2>3 DEF GetMessage, Talking
  <2>4. CASE SendMessage(g)
    BY <2>1, <2>4 DEF SendMessage, Step, Maps, Talking
  <2>5. CASE Connect(g)
    BY <2>5 DEF Connect
  <2>6. CASE ClosePort(g)
    BY <2>2, <2>6 DEF ClosePort, Step
  <2>7. CASE MessageFails(g)
    BY <2>1, <2>7 DEF MessageFails, Step, Talking
  <2>8. CASE CreateQueue(g) \/ CreatePort(g) \/ CreateObjectFails(g) \/ ConnectFails(g)
             \/ DeQueuePacket(g) \/ QueueGone(g) \/ Leave(g) \/ CloseQueue(g)
    BY <2>8 DEF CreateQueue, CreatePort, CreateObjectFails, ConnectFails, DeQueuePacket,
           QueueGone, Leave, CloseQueue, Step
  <2> QED
    BY <2>3, <2>4, <2>5, <2>6, <2>7, <2>8 DEF ProcessThread
<1>4. ASSUME NEW h \in Sessions, pipe'[h] \in {"asked", "acked"}, tpc'[h] # "gone"
      PROVE  tpc'[h] = "await"
  <2>1. CASE h = g
    <3>1. tpc[g] # "gone"
      BY <1>1 DEF Effect, Moves
    <3> QED
      BY <1>3, <1>4, <2>1, <3>1 DEF Answers, Maps
  <2>2. CASE h # g
    BY <1>2, <1>3, <1>4, <2>2 DEF Answers, Maps
  <2> QED
    BY <2>1, <2>2
<1>5. ASSUME NEW h \in Sessions, tpc'[h] = "await", pipe'[h] = "acked", current'[h].kind = "large"
      PROVE  applied'
  <2>1. h = g /\ tpc[g] = "send"
    BY <1>2, <1>5, ThreadPacket
  <2>2. pipe[g] # "acked"
    BY <2>1 DEF Answers
  <2> QED
    BY <1>3, <1>5, <2>1, <2>2 DEF Maps
<1> QED
  BY <1>4, <1>5 DEF Answers

\* What is on a pipe is the answer to the packet its thread handles.
LEMMA AnswersStep ==
  ASSUME Flags, Ranges, Maps, Queues, Opened, Fresh, Modal, Made,
         OneSession, OnePacket, Answers, ~overlap', Next
  PROVE  Answers'
<1> USE DEF userVars, processVars, packetVars, threadVars, queueVars, targetVars, boundVars,
            runtimeRest
<1>1. CASE QueueUserCommand
  <2>1. Expected = "none"
    BY <1>1 DEF QueueUserCommand, Expected, Modal
  <2>2. \A g \in Sessions : tpc[g] = "await" => current[g].kind # "large"
    BY <2>1 DEF OnePacket, OnePacketOf, Control, Alive, Over
  <2> QED
    BY <1>1, <2>2 DEF QueueUserCommand, Answers
<1>2. ASSUME UNCHANGED <<pipe, current, applied>>,
             \A g \in Sessions : tpc'[g] \in {tpc[g], "gone"}
      PROVE  Answers'
  BY <1>2 DEF Answers
<1>3. CASE CreateProcess
  <2>1. \A g \in Sessions : tpc[g] \in Over
    BY <1>3 DEF CreateProcess, Flags
  <2>2. /\ \A g \in Sessions : tpc'[g] = (IF g = issued THEN "queue" ELSE tpc[g])
        /\ UNCHANGED pipe /\ cpc = "create"
    BY <1>3 DEF CreateProcess, Maps
  <2>3. \A g \in Sessions : tpc[g] = "gone" \/ pipe[g] \notin {"asked", "acked"}
    BY <2>1 DEF Answers, Over
  <2>4. issued \in Sessions => tpc[issued] = "unborn"
    BY <2>2 DEF Fresh
  <2>5. \A g \in Sessions : tpc'[g] # "gone" => pipe'[g] \notin {"asked", "acked"}
    BY <2>2, <2>3, <2>4
  <2>6. \A g \in Sessions : tpc'[g] # "await"
    BY <2>1, <2>2 DEF Over
  <2> QED
    BY <2>5, <2>6 DEF Answers
<1>4. CASE CommandThread /\ ~CreateProcess
  <2>1. UNCHANGED <<pipe, current, applied>> /\ \A g \in Sessions : tpc'[g] \in {tpc[g], "gone"}
    BY <1>4 DEF CommandThread, StopCommand, ProbeCommand, CreateFails, ProcessCreated,
           StartProcess, ProcessStarted, BuildLargeRequest, BuildFails, CommandDone, Ask,
           Callback, Fault, Maps
  <2> QED
    BY <1>2, <2>1
<1>5. ASSUME NEW g \in Sessions, ProcessThread(g) PROVE Answers'
  BY <1>5, AnswersThread
<1>6. ASSUME NEW g \in Sessions, Serve(g) PROVE Answers'
  <2>1. PICK h \in Sessions : /\ tpc[h] = "await" /\ current[h].port = g
                              /\ applied' = (applied \/ current[h].kind = "large")
    BY <1>6 DEF Serve
  <2>2. h = g /\ UNCHANGED <<tpc, current>> /\ pipe' = [pipe EXCEPT ![g] = "acked"]
    BY <1>6, <2>1 DEF Serve, OneSession, Talking
  <2>3. \A i \in Sessions : tpc[i] = "await" => i = g
    BY <2>1, <2>2 DEF OneSession, Alive, Over
  <2> QED
    BY <2>1, <2>2, <2>3 DEF Answers, Maps
<1>7. CASE ConnectionBreaks \/ PostTimerPacket \/ Uninitialize \/ Exit
  <2>1. UNCHANGED <<pipe, current, applied>> /\ \A g \in Sessions : tpc'[g] \in {tpc[g], "gone"}
    BY <1>7 DEF ConnectionBreaks, PostTimerPacket, Uninitialize, Exit, StopAllProcess,
           ProcessStopped, StopTimesOut
  <2> QED
    BY <1>2, <2>1
<1>8. CASE Unload \/ TargetExits
  <2>1. /\ UNCHANGED <<tpc, current, applied>>
        /\ \A g \in Sessions : /\ pipe'[g] # "asked"
                               /\ pipe'[g] = "acked" <=> pipe[g] = "acked"
    BY <1>8 DEF Unload, TargetExits, Broken
  <2> QED
    BY <2>1 DEF Answers
<1> QED
  BY <1>1, <1>3, <1>4, <1>5, <1>6, <1>7, <1>8 DEF Next, Runtime

\* A control packet that is answered with success did what it is for: MspOnControl
\* skips a start of a process that is started, and never a large probe that is
\* waited for, since its process is started.
LEMMA ServedThread ==
  ASSUME Flags, Ranges, Maps, Queues, Opened, Fresh, Modal, Made,
         OneSession, OnePacket, Answers, Served, NEW g \in Sessions, ProcessThread(g)
  PROVE  Served'
<1>1. Effect(g)
  BY ThreadEffect
<1>2. \A h \in Sessions : Alive(h) => h = g
  BY <1>1 DEF OneSession, Alive, Over, Effect, Moves
<1>3. \A h \in Sessions : h # g => tpc'[h] = tpc[h] /\ tpc'[h] \notin Active
  BY <1>1, <1>2 DEF Effect, Maps, Alive, Over, Active
<1>4. Started' <=> (tpc'[g] \in Active => state' = "STARTED")
  BY <1>3 DEF Started
<1>5. UNCHANGED <<command, answer, applied, cpc, phase>>
  BY <1>1 DEF Effect, userVars
<1>6. tpc[g] \in Talking => OnePacketOf(g)
  BY DEF OnePacket, Alive, Over, Talking
<1>7. ASSUME cpc \in {"build", "committed"}, tpc'[g] \in Active PROVE state' = "STARTED"
  <2>1. tpc[g] # "connect"
    BY <1>7 DEF OneSession
  <2>2. tpc[g] \in Active
    BY <1>1, <1>7, <2>1 DEF Effect, Moves, Active
  <2>3. state = "STARTED"
    BY <1>7, <2>2 DEF Served, Started
  <2> QED
    BY <1>1, <1>7, <2>2, <2>3 DEF Effect, Active
<1>8. ASSUME cpc = "started", event', result' = "ok", tpc'[g] \in Active PROVE state' = "STARTED"
  <2>1. phase = "running"
    BY <1>8 DEF Modal, Ranges
  <2>2. Expected = "start"
    BY <1>8, <2>1 DEF Expected
  <2>3. tpc[g] \in Active
    BY <1>1, <1>8 DEF Effect, Moves, Active, OneSession
  <2>4. ASSUME event, result = "ok" PROVE state' = "STARTED"
    BY <1>1, <1>8, <2>3, <2>4 DEF Served, Started, Effect, Active
  <2>5. CASE QueueGone(g) \/ SendMessage(g)
    BY <1>8, <2>4, <2>5 DEF QueueGone, SendMessage, packetVars
  <2>6. CASE DeQueuePacket(g)
    <3>1. queueObject = g /\ tpc[g] = "loop"
      BY <2>6 DEF DeQueuePacket, OneSession, Alive, Over
    <3>2. Asks(Head(queue[g])) => UNCHANGED <<event, result>>
      BY <2>6, <3>1 DEF DeQueuePacket, packetVars
    <3>3. Head(queue[g]) \in Kinds /\ Head(queue[g]) = queue[g][1] /\ 1 \in DOMAIN queue[g]
      BY <2>6, <3>1, PacketTaken
    <3>4. Control(Head(queue[g])) => Head(queue[g]) = "start"
      BY <2>2, <3>1, <3>3 DEF OnePacket, OnePacketOf, Alive, Over
    <3>5. ~Asks(Head(queue[g])) => state = "STARTED"
      BY <3>3, <3>4 DEF Asks, Control, Kinds
    <3> QED
      BY <1>8, <2>4, <2>6, <3>2, <3>5 DEF DeQueuePacket, processVars
  <2>7. CASE GetMessage(g)
    <3>1. tpc[g] = "await"
      BY <2>7 DEF GetMessage
    <3>2. current[g].kind \in {"timer", "start"}
      BY <1>6, <2>2, <3>1 DEF OnePacketOf, Control, Fresh, Talking, Kinds
    <3> QED
      BY <1>8, <2>4, <2>7, <3>2 DEF GetMessage, packetVars
  <2>8. CASE MessageFails(g)
    <3>1. tpc'[g] = "leave"
      BY <2>8 DEF MessageFails, Step, Maps
    <3> QED
      BY <1>8, <3>1 DEF Active
  <2>9. CASE Leave(g) \/ ClosePort(g) \/ CloseQueue(g) \/ CreateQueue(g) \/ CreatePort(g)
             \/ CreateObjectFails(g) \/ Connect(g) \/ ConnectFails(g)
    BY <2>3, <2>9 DEF Leave, ClosePort, CloseQueue, CreateQueue, CreatePort,
           CreateObjectFails, Connect, ConnectFails, Step, Active
  <2> QED
    BY <2>5, <2>6, <2>7, <2>8, <2>9 DEF ProcessThread
<1>9. ASSUME cpc = "committed", event', result' = "ok" PROVE applied
  <2>1. phase = "running"
    BY <1>9 DEF Modal, Ranges
  <2>2. Expected = "large"
    BY <1>9, <2>1 DEF Expected
  <2>4. ASSUME event, result = "ok" PROVE applied
    BY <1>9, <2>4 DEF Served
  <2>5. CASE UNCHANGED packetVars
    BY <1>9, <2>4, <2>5 DEF packetVars
  <2>6. CASE DeQueuePacket(g)
    <3>1. queueObject = g /\ tpc[g] = "loop"
      BY <2>6 DEF DeQueuePacket, OneSession, Alive, Over
    <3>2. Asks(Head(queue[g])) => UNCHANGED <<event, result>>
      BY <2>6, <3>1 DEF DeQueuePacket, packetVars
    <3>3. Head(queue[g]) \in Kinds /\ Head(queue[g]) = queue[g][1] /\ 1 \in DOMAIN queue[g]
      BY <2>6, <3>1, PacketTaken
    <3>4. Control(Head(queue[g])) => Head(queue[g]) = "large"
      BY <2>2, <3>1, <3>3 DEF OnePacket, OnePacketOf, Alive, Over
    <3>5. state = "STARTED"
      BY <1>9, <3>1 DEF Served, Started, Active
    <3>6. Asks(Head(queue[g]))
      BY <3>3, <3>4, <3>5 DEF Asks, Control, Kinds
    <3> QED
      BY <1>9, <2>4, <3>2, <3>6
  <2>7. CASE GetMessage(g)
    <3>1. tpc[g] = "await" /\ pipe[g] = "acked"
      BY <2>7 DEF GetMessage, OneSession, Talking
    <3>2. CASE current[g].kind = "large"
      BY <3>1, <3>2 DEF Answers
    <3>3. CASE current[g].kind # "large"
      <4>1. current[g].kind = "timer"
        BY <1>6, <2>2, <3>1, <3>3 DEF OnePacketOf, Control, Fresh, Talking, Kinds
      <4> QED
        BY <2>5, <2>7, <4>1 DEF GetMessage
    <3> QED
      BY <3>2, <3>3
  <2>8. CASE MessageFails(g)
    <3>1. tpc[g] \in Talking
      BY <2>8 DEF MessageFails, Step, Talking
    <3>2. current[g].kind \in {"timer", "large"}
      BY <1>6, <2>2, <3>1 DEF OnePacketOf, Control, Fresh, Talking, Kinds
    <3> QED
      BY <1>9, <2>5, <2>8, <3>2 DEF MessageFails, Complete
  <2>9. CASE Connect(g) \/ ConnectFails(g)
    BY <1>9, <2>9 DEF Connect, ConnectFails, Step, OneSession
  <2> QED
    BY <2>5, <2>6, <2>7, <2>8, <2>9 DEF ProcessThread, Leave, ClosePort, CloseQueue,
           CreateQueue, CreatePort, CreateObjectFails, QueueGone, SendMessage
<1>10. command = "probe" /\ answer = "ok" => applied
  BY DEF Served
<1> QED
  BY <1>4, <1>5, <1>7, <1>8, <1>9, <1>10 DEF Served

\* A large request is queued to a started process, and its answer is that of the
\* runtime.
LEMMA ServedStep ==
  ASSUME Flags, Ranges, Maps, Queues, Opened, Fresh, Modal, Made,
         OneSession, OnePacket, Answers, Served, ~overlap', Next
  PROVE  Served'
<1> USE DEF Served, Modal, userVars, processVars, packetVars, threadVars, queueVars,
            targetVars, boundVars, runtimeRest
<1>1. ASSUME UNCHANGED state, \A g \in Sessions : tpc'[g] \in {tpc[g], "gone"} PROVE Started => Started'
  BY <1>1 DEF Started, Active
<1>2. CASE QueueUserCommand
  BY <1>2 DEF QueueUserCommand
<1>3. CASE StopCommand
  BY <1>3 DEF StopCommand, Callback, Ask
<1>4. CASE ProbeCommand
  <2>1. cpc' = "build" => state = "STARTED"
    BY <1>4 DEF ProbeCommand, Ranges
  <2> QED
    BY <1>4, <2>1 DEF ProbeCommand, Started
<1>5. CASE CreateProcess \/ CreateFails
  BY <1>5 DEF CreateProcess, CreateFails, Callback
<1>6. CASE ProcessCreated
  BY <1>6 DEF ProcessCreated, Callback
<1>7. CASE StartProcess
  BY <1>7 DEF StartProcess, Ask, Started
<1>8. CASE ProcessStarted
  BY <1>8 DEF ProcessStarted, Callback, Started
<1>9. CASE BuildLargeRequest
  BY <1>9 DEF BuildLargeRequest, Ask, Started
<1>10. CASE BuildFails
  BY <1>10 DEF BuildFails
<1>11. CASE CommandDone
  BY <1>11 DEF CommandDone, Callback
<1>12. ASSUME NEW g \in Sessions, ProcessThread(g) PROVE Served'
  BY <1>12, ServedThread
<1>13. CASE Runtime \/ TargetExits \/ PostTimerPacket \/ Uninitialize
  <2>1. UNCHANGED <<tpc, state, cpc, event, result, command, answer>> /\ (applied => applied')
    BY <1>13 DEF Runtime, ConnectionBreaks, Unload, Serve, TargetExits, PostTimerPacket,
           Uninitialize
  <2> QED
    BY <2>1 DEF Started
<1>14. CASE Exit
  <2>1. UNCHANGED <<cpc, command, answer, applied>> /\ cpc = "idle"
    BY <1>14 DEF Exit, StopAllProcess, ProcessStopped, StopTimesOut
  <2> QED
    BY <2>1
<1> QED
  BY <1>2, <1>3, <1>4, <1>5, <1>6, <1>7, <1>8, <1>9, <1>10, <1>11, <1>12, <1>13, <1>14
     DEF Next, CommandThread
-----------------------------------------------------------------------------
\* The three facts of the inductive invariant.
LEMMA InitIInv == Init => IInv
<1> SUFFICES ASSUME Init PROVE IInv
  OBVIOUS
<1> USE ControlAssumption DEF Init
<1>1. Flags /\ Modal /\ Packets
  BY DEF Flags, Modal, Packets
<1>2. Ranges
  BY DEF Ranges
<1>3. Maps
  BY DEF Maps, Over, Nothing, Sessions
<1>4. Queues
  BY DEF Queues
<1>5. Opened
  BY DEF Opened
<1>6. Fresh
  BY DEF Fresh, Talking
<1>7. Unlisted /\ Made /\ Numbered
  BY DEF Unlisted, Made, Numbered, Alive, Over
<1>8. Orderly
  BY DEF Orderly, OneSession, OnePacket, Answers, Served, Alive, Over, Talking
<1> QED
  BY <1>1, <1>2, <1>3, <1>4, <1>5, <1>6, <1>7, <1>8 DEF IInv

LEMMA StutterIInv == IInv /\ UNCHANGED vars => IInv'
<1> SUFFICES ASSUME IInv, UNCHANGED vars PROVE IInv'
  OBVIOUS
<1> USE DEF IInv, vars, userVars, processVars, packetVars, threadVars, queueVars, targetVars,
            boundVars
<1>1. Flags' /\ Ranges' /\ Maps' /\ Queues' /\ Opened' /\ Packets'
  BY DEF Flags, Ranges, Maps, Queues, Opened, Packets
<1>2. Fresh' /\ Modal' /\ Unlisted' /\ Made' /\ Numbered'
  BY DEF Fresh, Modal, Unlisted, Made, Numbered, Alive
<1>3. overlap' = overlap
  OBVIOUS
<1>4. ASSUME ~overlap PROVE Orderly'
  <2>1. OneSession'
    BY <1>4 DEF Orderly, OneSession, Alive
  <2>2. OnePacket'
    BY <1>4 DEF Orderly, OnePacket, OnePacketOf, Expected, Alive
  <2>3. Answers' /\ Served'
    BY <1>4 DEF Orderly, Answers, Served, Started
  <2> QED
    BY <2>1, <2>2, <2>3 DEF Orderly
<1> QED
  BY <1>1, <1>2, <1>3, <1>4

LEMMA NextIInv == IInv /\ Next => IInv'
<1> SUFFICES ASSUME IInv, Next PROVE IInv'
  OBVIOUS
<1>1. /\ Flags /\ Ranges /\ Maps /\ Queues /\ Opened /\ Packets
      /\ Fresh /\ Modal /\ Unlisted /\ Made /\ Numbered
  BY DEF IInv
<1>2. Flags' /\ Ranges' /\ Maps' /\ Queues' /\ Opened' /\ Packets'
  BY <1>1, FlagsStep, RangesStep, MapsStep, QueuesStep, OpenedStep, PacketsStep
<1>3. Fresh' /\ Modal' /\ Unlisted' /\ Made' /\ Numbered'
  BY <1>1, FreshStep, ModalStep, UnlistedStep, MadeStep, NumberedStep
<1>4. ASSUME ~overlap' PROVE Orderly'
  <2>1. ~overlap
    BY <1>1, <1>4, OverlapStays
  <2>2. OneSession /\ OnePacket /\ Answers /\ Served
    BY <2>1 DEF IInv, Orderly
  <2>3. OneSession'
    BY <1>1, <1>4, <2>2, OneSessionStep
  <2>4. OnePacket'
    BY <1>1, <1>4, <2>2, OnePacketStep
  <2>5. Answers'
    BY <1>1, <1>4, <2>2, AnswersStep
  <2>6. Served'
    BY <1>1, <1>4, <2>2, ServedStep
  <2> QED
    BY <2>3, <2>4, <2>5, <2>6 DEF Orderly
<1> QED
  BY <1>2, <1>3, <1>4 DEF IInv

\* The inductive invariant holds in every state of every run.
THEOREM Inductive == Spec => []IInv
<1>1. IInv /\ [Next]_vars => IInv'
  BY StutterIInv, NextIInv
<1> QED
  BY <1>1, InitIInv, PTL DEF Spec
-----------------------------------------------------------------------------
\* The types of the variables.
THEOREM ControlTypes == Spec => []TypeOK
<1>1. IInv => TypeOK
  BY TypeParts DEF IInv
<1> QED
  BY <1>1, Inductive, PTL

\* A control packet is allocated as long as a thread handles it or will take it
\* out of its queue: MspOnProbeCommand, MspOnStopCommand and MspUninitialize free
\* their packet after the wait, and what set the event was its completion, or the
\* thread was terminated.
THEOREM PacketsStayAllocated == Spec => []PacketsAllocated
<1>1. IInv => PacketsAllocated
  <2> SUFFICES ASSUME IInv, NEW g \in Sessions, Alive(g), ~overlap, ~NoControl(g) PROVE held # {}
    BY DEF PacketsAllocated, NoControl
  <2>1. OnePacketOf(g)
    BY DEF IInv, Orderly, OnePacket
  <2>2. Expected # "none"
    BY <2>1, Calm
  <2>3. cpc \in {"started", "committed", "stopped"} \/ phase = "wait"
    BY <2>2 DEF Expected
  <2> QED
    BY <2>3 DEF IInv, Modal
<1> QED
  BY <1>1, Inductive, PTL

\* A probe command whose dialog ends with success had its probes given to the
\* runtime.
THEOREM OkIsApplied == Spec => []OkMeansApplied
<1>1. IInv => OkMeansApplied
  BY DEF IInv, Orderly, Served, OkMeansApplied
<1> QED
  BY <1>1, Inductive, PTL
================================================================================
