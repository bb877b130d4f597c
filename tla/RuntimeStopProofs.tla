---------------------------- MODULE RuntimeStopProofs ----------------------------
(***************************************************************************)
(* Stopping the runtime, for every size of the packet cache, length of the  *)
(* queues and number of faults.  A worker leaves its loop at the stop that  *)
(* was posted last, so its queue is empty by then, unless an exception      *)
(* took it out of the loop before.                                          *)
(***************************************************************************)
EXTENDS RuntimeStop, SequenceTheorems, WellFoundedInduction, TLAPS

Item  == [slot : 0 .. CacheSize, code : Codes \cup {"none", "stop"}]
Stops(e) == e.slot = 0 /\ e.code = "stop"
NoStop(q) == \A i \in 1 .. Len(q) : ~Stops(q[i])

\* A notification of the cache that is in a queue has a control block.
Paired ==
  \A t \in Workers : \A i \in 1 .. Len(queue[t]) :
    queue[t][i].slot # 0 => points[queue[t][i].slot] \in Slots

\* "Wait all runtime threads to exit": the queues are destroyed, the probes
\* unregistered and the library unloaded when no other thread uses them.
ThreadsExitFirst ==
  spc \in {"destroy", "unloaded"} => mpc = "exited" /\ \A t \in Workers : Exited(t)

Before == {"timer", "lookaside", "stacktrace", "dequeue", "stop"}

\* A worker without an exception asks for no stop, so one is posted to it
\* whoever asks, and it finds that one behind all its work.
EndsByStop(t) ==
  /\ wpc[t] # "request" /\ requestor # t
  /\ \A i \in 1 .. Len(requests) : requests[i] # t
  /\ Exited(t) => spc \notin Before /\ queue[t] = << >>
  /\ spc = "wait" /\ ~Exited(t) =>
       \E q \in Seq(Item) : NoStop(q) /\ queue[t] = Append(q, OfHeap("stop"))

StopIsLast ==
  /\ spc \in Before => \A t \in Workers : NoStop(queue[t])
  /\ \A t \in Workers : t \notin broken => EndsByStop(t)

IInv == TypeOK /\ Paired /\ ThreadsExitFirst /\ StopIsLast /\ CachedNeverFreed

\* There is a first usable slot whenever there is one.
LEMMA FirstUsable ==
  ASSUME Usable # {}
  PROVE  Min(Usable) \in Usable
<1>1. IsWellFoundedOn({p \in Nat \X Nat : p[1] < p[2]}, Nat)
  BY NatLessThanWellFounded DEF OpToRel
<1>2. Usable \subseteq Nat
  BY RuntimeAssumption DEF Usable, Slots
<1>3. PICK n \in Usable : \A m \in Usable : ~(<<m, n>> \in {p \in Nat \X Nat : p[1] < p[2]})
  BY <1>1, <1>2, WFMin
<1>4. ASSUME NEW m \in Usable PROVE n <= m
  <2>1. m \in Nat /\ n \in Nat
    BY <1>2
  <2>2. m < n => <<m, n>> \in {p \in Nat \X Nat : p[1] < p[2]}
    BY <2>1
  <2> QED
    BY <1>3, <2>1, <2>2
<1>5. \E m \in Usable : \A k \in Usable : m <= k
  BY <1>4
<1> QED
  BY <1>5, Zenon DEF Min

\* What posting work does: the types are kept, control blocks stay, and at most
\* one notification that is no stop is appended to the worker's queue.
Posting(t) ==
  /\ posted' \in [Slots -> BOOLEAN] /\ complete' \in [Slots -> BOOLEAN]
  /\ code' \in [Slots -> Codes] /\ points' \in [Slots -> 0 .. CacheSize]
  /\ control' \in 0 .. CacheSize
  /\ \A s \in Slots : points[s] \in Slots => points'[s] \in Slots
  /\ \E e \in Item :
       /\ ~Stops(e) /\ (e.slot # 0 => points'[e.slot] \in Slots)
       /\ queue' = queue \/ queue' = [queue EXCEPT ![t] = Append(@, e)]

\* BtrScheduleWrite and the two scans, with the packet they allocate.
LEMMA WorkPosted ==
  ASSUME TypeOK, NEW t \in Workers, NEW c \in Codes, ScheduleWork(t, c)
  PROVE  Posting(t)
<1>0. /\ posted \in [Slots -> BOOLEAN] /\ complete \in [Slots -> BOOLEAN]
      /\ code \in [Slots -> Codes] /\ points \in [Slots -> 0 .. CacheSize]
      /\ control \in 0 .. CacheSize /\ CacheSize \in Nat \ {0}
  BY RuntimeAssumption DEF TypeOK
<1> DEFINE n == Min(Usable)
           k == IF posted[n] THEN control ELSE n
           onePosted(e) == queue' = queue \/ queue' = [queue EXCEPT ![t] = Append(@, e)]
<1>1. OfHeap(c) \in Item /\ OfHeap(c).slot = 0 /\ ~Stops(OfHeap(c))
  BY <1>0 DEF OfHeap, Item, Stops, Codes
<1>2. Post(t, OfHeap(c)) => onePosted(OfHeap(c))
  BY DEF Post
<1>3. PostHeap(t, c) => UNCHANGED <<code, points>> /\ onePosted(OfHeap(c))
  BY <1>2 DEF PostHeap
<1>4. CASE Usable = {}
  <2>1. control' = 0 /\ UNCHANGED <<posted, complete, code, points>> /\ onePosted(OfHeap(c))
    BY <1>3, <1>4 DEF ScheduleWork
  <2> QED
    BY <1>0, <1>1, <2>1 DEF Posting
<1>5. CASE Usable # {}
  <2>1. n \in Slots
    BY <1>5, FirstUsable DEF Usable
  <2>2. k \in 0 .. CacheSize /\ (k # 0 => k \in Slots)
    BY <1>0, <2>1 DEF Slots
  <2>3. /\ control' = k
        /\ complete' = [s \in Slots |-> IF s \in {n, k} THEN FALSE ELSE complete[s]]
        /\ posted' = [s \in Slots |-> IF s = k THEN TRUE ELSE IF s = n THEN FALSE ELSE posted[s]]
        /\ IF k = 0 THEN PostHeap(t, c) ELSE PostCached(t, c, n, k)
    BY <1>5 DEF ScheduleWork
  <2> HIDE DEF n, k
  <2>4. posted' \in [Slots -> BOOLEAN] /\ complete' \in [Slots -> BOOLEAN]
    <3>1. \A s \in Slots : (IF s = k THEN TRUE ELSE IF s = n THEN FALSE ELSE posted[s]) \in BOOLEAN
      BY <1>0
    <3>2. \A s \in Slots : (IF s \in {n, k} THEN FALSE ELSE complete[s]) \in BOOLEAN
      BY <1>0
    <3> QED
      BY <2>3, <3>1, <3>2, Zenon
  <2>5. CASE k = 0
    BY <1>0, <1>1, <1>3, <2>2, <2>3, <2>4, <2>5 DEF Posting
  <2>6. CASE k # 0
    <3>1. /\ code' = [code EXCEPT ![k] = c] /\ points' = [points EXCEPT ![n] = k]
          /\ onePosted(Cached(n))
      BY <2>3, <2>6 DEF PostCached, Post
    <3>2. /\ Cached(n) \in Item /\ ~Stops(Cached(n)) /\ Cached(n).slot = n
      BY <1>0, <2>1 DEF Cached, Item, Stops, Slots
    <3>3. points'[n] \in Slots /\ \A s \in Slots : points[s] \in Slots => points'[s] \in Slots
      BY <1>0, <2>1, <2>2, <2>6, <3>1
    <3>4. code' \in [Slots -> Codes] /\ points' \in [Slots -> 0 .. CacheSize]
      BY <1>0, <2>1, <2>2, <3>1
    <3> QED
      BY <2>2, <2>3, <2>4, <3>1, <3>2, <3>3, <3>4 DEF Posting
  <2> QED
    BY <2>5, <2>6
<1> QED
  BY <1>4, <1>5

\* Work behind work: the queues keep their type, and still hold no stop.
LEMMA WorkQueued ==
  ASSUME TypeOK, Paired, NEW t \in Workers, Posting(t)
  PROVE  /\ queue' \in [Workers -> Seq(Item)]
         /\ Paired'
         /\ \A u \in Workers : NoStop(queue[u]) => NoStop(queue'[u])
         /\ \A u \in Workers : u # t => queue'[u] = queue[u]
<1>0. queue \in [Workers -> Seq(Item)]
  BY DEF TypeOK, Item
<1>1. PICK e \in Item : /\ ~Stops(e) /\ (e.slot # 0 => points'[e.slot] \in Slots)
                        /\ queue' = queue \/ queue' = [queue EXCEPT ![t] = Append(@, e)]
  BY DEF Posting
<1>2. \A s \in Slots : points[s] \in Slots => points'[s] \in Slots
  BY DEF Posting
<1>3. \A u \in Workers : \A i \in 1 .. Len(queue[u]) : queue[u][i].slot # 0 => queue[u][i].slot \in Slots
  <2> SUFFICES ASSUME NEW u \in Workers, NEW i \in 1 .. Len(queue[u]), queue[u][i].slot # 0
               PROVE  queue[u][i].slot \in Slots
    OBVIOUS
  <2>1. queue[u] \in Seq(Item)
    BY <1>0
  <2>2. queue[u][i] \in Item
    BY <2>1
  <2> QED
    BY <2>2, RuntimeAssumption DEF Item, Slots
<1>4. CASE queue' = queue
  BY <1>0, <1>2, <1>3, <1>4 DEF Paired
<1>5. CASE queue' = [queue EXCEPT ![t] = Append(@, e)]
  <2>1. \A u \in Workers : queue'[u] = IF u = t THEN Append(queue[t], e) ELSE queue[u]
    BY <1>0, <1>5
  <2>2. /\ queue[t] \in Seq(Item) /\ Append(queue[t], e) \in Seq(Item)
        /\ Len(Append(queue[t], e)) = Len(queue[t]) + 1
        /\ \A i \in 1 .. Len(queue[t]) : Append(queue[t], e)[i] = queue[t][i]
        /\ Append(queue[t], e)[Len(queue[t]) + 1] = e
        /\ Len(queue[t]) \in Nat
    BY <1>0
  <2>3. queue' \in [Workers -> Seq(Item)]
    BY <1>0, <1>5, <2>2
  <2>4. ASSUME NEW i \in 1 .. Len(queue[t]) + 1
        PROVE  Append(queue[t], e)[i] = IF i = Len(queue[t]) + 1 THEN e ELSE queue[t][i]
    BY <2>2, <2>4
  <2>5. Paired'
    <3>1. ASSUME NEW u \in Workers, NEW i \in 1 .. Len(queue'[u]), queue'[u][i].slot # 0
          PROVE  points'[queue'[u][i].slot] \in Slots
      <4>1. CASE u = t /\ i = Len(queue[t]) + 1
        BY <4>1, <3>1, <2>1, <2>2, <1>1
      <4>2. CASE ~(u = t /\ i = Len(queue[t]) + 1)
        <5>1. i \in 1 .. Len(queue[u]) /\ queue'[u][i] = queue[u][i]
          <6>1. CASE u = t
            <7>1. queue'[u] = Append(queue[t], e)
              BY <6>1, <2>1
            <7>2. i \in 1 .. Len(queue[t])
              BY <4>2, <6>1, <7>1, <2>2
            <7> QED
              BY <6>1, <7>1, <7>2, <2>2
          <6>2. CASE u # t
            BY <6>2, <2>1
          <6> QED
            BY <6>1, <6>2
        <5>2. queue[u][i].slot # 0
          BY <5>1, <3>1
        <5>3. queue[u][i].slot \in Slots
          BY <5>1, <5>2, <1>3
        <5>4. points[queue[u][i].slot] \in Slots
          BY <5>1, <5>2 DEF Paired
        <5> QED
          BY <5>1, <5>3, <5>4, <1>2
      <4> QED
        BY <4>1, <4>2
    <3> QED
      BY <3>1 DEF Paired
  <2>6. \A u \in Workers : NoStop(queue[u]) => NoStop(queue'[u])
    <3> SUFFICES ASSUME NEW u \in Workers, NoStop(queue[u]), NEW i \in 1 .. Len(queue'[u])
                 PROVE  ~Stops(queue'[u][i])
      BY DEF NoStop
    <3>1. CASE u = t
      <4>1. i \in 1 .. Len(queue[t]) + 1 /\ queue'[u][i] = Append(queue[t], e)[i]
        BY <3>1, <2>1, <2>2
      <4>2. CASE i = Len(queue[t]) + 1
        BY <4>1, <4>2, <2>2, <1>1
      <4>3. CASE i # Len(queue[t]) + 1
        <5>1. i \in 1 .. Len(queue[t])
          BY <4>1, <4>3, <2>2
        <5> QED
          BY <5>1, <4>1, <2>2, <3>1 DEF NoStop
      <4> QED
        BY <4>2, <4>3
    <3>2. CASE u # t
      BY <3>2, <2>1 DEF NoStop
    <3> QED
      BY <3>1, <3>2
  <2> QED
    BY <2>1, <2>3, <2>5, <2>6
<1> QED
  BY <1>1, <1>4, <1>5

\* Nothing has happened yet: the queues are empty.
LEMMA InductiveInit == Init => IInv
<1> SUFFICES ASSUME Init PROVE IInv
  OBVIOUS
<1>1. TypeOK
  <2>1. posted \in [Slots -> BOOLEAN] /\ complete \in [Slots -> BOOLEAN]
    BY DEF Init
  <2>2. /\ code \in [Slots -> Codes] /\ points \in [Slots -> 0 .. CacheSize]
        /\ control \in 0 .. CacheSize /\ quantum \in 0 .. 3
        /\ freed \subseteq Slots /\ faults \in 0 .. MaxFaults
    BY RuntimeAssumption DEF Init, Codes
  <2>3. /\ requests \in Seq(Workers \cup {"User", "Message"})
        /\ queue \in [Workers -> Seq([slot : 0 .. CacheSize, code : Codes \cup {"none", "stop"}])]
        /\ wpc \in [Workers -> {"wait", "work", "request", "exited"}]
        /\ work \in [Workers -> [slot : 0 .. CacheSize, code : Codes \cup {"none"}]]
    BY RuntimeAssumption DEF Init, NoWork, OfHeap
  <2> QED
    BY <2>1, <2>2, <2>3 DEF Init, TypeOK
<1>2. Paired
  BY DEF Init, Paired
<1>3. ThreadsExitFirst
  BY DEF Init, ThreadsExitFirst
<1>4. StopIsLast
  BY DEF Init, StopIsLast, EndsByStop, Exited, NoStop, Workers
<1>5. CachedNeverFreed
  BY DEF Init, CachedNeverFreed
<1> QED
  BY <1>1, <1>2, <1>3, <1>4, <1>5 DEF IInv

\* The schedule thread's three ticks: work is posted, nothing else moves.
LEMMA TickStep ==
  ASSUME IInv, NEW t \in Workers, NEW c \in Codes, ScheduleWork(t, c),
         spc \in Before \ {"stop"}, spc' \in Before \ {"stop"}, quantum' \in 0 .. 3,
         UNCHANGED <<requestor, requests, wpc, work, mpc, broken, freed, faults>>
  PROVE  IInv'
<1>1. Posting(t)
  BY WorkPosted DEF IInv
<1>2. /\ queue' \in [Workers -> Seq(Item)] /\ Paired'
      /\ \A u \in Workers : NoStop(queue[u]) => NoStop(queue'[u])
  BY <1>1, WorkQueued DEF IInv
<1>3. TypeOK'
  BY <1>1, <1>2 DEF IInv, TypeOK, Posting, Before, Item
<1>4. ThreadsExitFirst'
  BY DEF ThreadsExitFirst, Before
<1>5. StopIsLast'
  BY <1>2 DEF IInv, StopIsLast, EndsByStop, Before, Exited
<1>6. CachedNeverFreed'
  BY DEF IInv, CachedNeverFreed
<1> QED
  BY <1>2, <1>3, <1>4, <1>5, <1>6 DEF IInv

\* Stops that are asked for are handled one after the other.
LEMMA ScheduleDeQueueStep == ASSUME IInv, ScheduleDeQueue PROVE IInv'
<1> USE DEF IInv, ScheduleDeQueue, cacheVars, workerVars
<1>0. requests \in Seq(Workers \cup {"User", "Message"})
  BY DEF TypeOK
<1>1. CASE requests = << >>
  <2>1. TypeOK'
    BY <1>1 DEF TypeOK
  <2>2. Paired' /\ ThreadsExitFirst' /\ CachedNeverFreed'
    BY DEF Paired, ThreadsExitFirst, CachedNeverFreed
  <2>3. StopIsLast'
    BY <1>1 DEF StopIsLast, EndsByStop, Before, Exited, NoStop
  <2> QED
    BY <2>1, <2>2, <2>3
<1>2. CASE requests # << >>
  <2>1. /\ Head(requests) \in Workers \cup {"User", "Message"} /\ Head(requests) = requests[1]
        /\ Tail(requests) \in Seq(Workers \cup {"User", "Message"}) /\ 1 \in 1 .. Len(requests)
        /\ \A i \in 1 .. Len(Tail(requests)) :
             i + 1 \in 1 .. Len(requests) /\ Tail(requests)[i] = requests[i + 1]
    BY <1>0, <1>2
  <2>2. TypeOK'
    BY <1>2, <2>1 DEF TypeOK
  <2>3. Paired' /\ ThreadsExitFirst' /\ CachedNeverFreed'
    BY <1>2 DEF Paired, ThreadsExitFirst, CachedNeverFreed
  <2>4. StopIsLast'
    <3>1. ASSUME NEW t \in Workers, t \notin broken PROVE EndsByStop(t)'
      <4>1. EndsByStop(t)
        BY <3>1 DEF StopIsLast
      <4>2. requestor' # t /\ \A i \in 1 .. Len(requests') : requests'[i] # t
        BY <1>2, <2>1, <4>1 DEF EndsByStop
      <4> QED
        BY <1>2, <4>1, <4>2 DEF EndsByStop, Before, Exited
    <3> QED
      BY <1>2, <3>1 DEF StopIsLast, Before, NoStop
  <2> QED
    BY <2>2, <2>3, <2>4
<1> QED
  BY <1>1, <1>2

\* An exception in the schedule thread.
LEMMA ScheduleExceptionStep == ASSUME IInv, ScheduleException PROVE IInv'
<1> USE RuntimeAssumption DEF IInv, ScheduleException, cacheVars, workerVars, Fault
<1>1. faults' \in 0 .. MaxFaults
  BY DEF TypeOK
<1>2. TypeOK'
  BY <1>1 DEF TypeOK
<1>3. Paired' /\ ThreadsExitFirst' /\ CachedNeverFreed'
  BY DEF Paired, ThreadsExitFirst, CachedNeverFreed
<1>4. StopIsLast'
  BY DEF StopIsLast, EndsByStop, Before, Exited, NoStop, Workers
<1> QED
  BY <1>2, <1>3, <1>4

\* Each worker that did not ask itself gets one stop, behind everything else.
LEMMA ScheduleStopStep == ASSUME IInv, ScheduleStop PROVE IInv'
<1> USE DEF IInv, ScheduleStop, cacheVars
<1> DEFINE e == OfHeap("stop")
<1>00. queue \in [Workers -> Seq(Item)]
  BY DEF TypeOK, Item
<1>000. e \in Item /\ e.slot = 0
  BY RuntimeAssumption DEF Item, OfHeap
<1>0. queue \in [Workers -> Seq(Item)] /\ e \in Item /\ e.slot = 0
  BY <1>00, <1>000
<1> HIDE DEF e
<1>1. \A t \in Workers : queue'[t] = IF t = requestor THEN queue[t] ELSE Append(queue[t], e)
  BY DEF e
<1>2. queue' \in [Workers -> Seq(Item)]
  BY <1>0, <1>1 DEF e
<1>3. TypeOK'
  BY <1>2 DEF TypeOK, Item
<1>4. Paired'
  <2> SUFFICES ASSUME NEW t \in Workers, NEW i \in 1 .. Len(queue'[t]), queue'[t][i].slot # 0
               PROVE  points'[queue'[t][i].slot] \in Slots
    BY DEF Paired
  <2>1. /\ queue[t] \in Seq(Item) /\ Len(queue[t]) \in Nat
        /\ Len(Append(queue[t], e)) = Len(queue[t]) + 1
        /\ \A j \in 1 .. Len(queue[t]) : Append(queue[t], e)[j] = queue[t][j]
        /\ Append(queue[t], e)[Len(queue[t]) + 1] = e
    BY <1>0
  <2>2. i \in 1 .. Len(queue[t]) /\ queue'[t][i] = queue[t][i]
    <3>1. CASE t = requestor
      BY <3>1, <1>1
    <3>2. CASE t # requestor
      <4>1. queue'[t] = Append(queue[t], e)
        BY <3>2, <1>1
      <4>2. i # Len(queue[t]) + 1
        BY <4>1, <2>1, <1>0
      <4> QED
        BY <4>1, <4>2, <2>1
    <3> QED
      BY <3>1, <3>2
  <2> QED
    BY <2>2 DEF Paired
<1>5. ThreadsExitFirst'
  BY DEF ThreadsExitFirst
<1>6. StopIsLast'
  <2>1. ASSUME NEW t \in Workers, t \notin broken PROVE EndsByStop(t)'
    <3>1. EndsByStop(t) /\ ~Exited(t) /\ NoStop(queue[t])
      BY <2>1 DEF StopIsLast, EndsByStop, Before
    <3>2. queue'[t] = Append(queue[t], e) /\ queue[t] \in Seq(Item)
      BY <1>0, <1>1, <3>1 DEF EndsByStop
    <3> QED
      BY <3>1, <3>2 DEF EndsByStop, Before, Exited, e
  <2> QED
    BY <2>1 DEF StopIsLast, Before
<1>7. CachedNeverFreed'
  BY DEF CachedNeverFreed
<1> QED
  BY <1>3, <1>4, <1>5, <1>6, <1>7

\* WaitForMultipleObjects returns.
LEMMA WaitExitsStep == ASSUME IInv, WaitExits PROVE IInv'
<1> USE DEF IInv, WaitExits, cacheVars, workerVars
<1>1. TypeOK'
  BY DEF TypeOK
<1>2. Paired' /\ ThreadsExitFirst' /\ CachedNeverFreed'
  BY DEF Paired, ThreadsExitFirst, CachedNeverFreed, Exited
<1>3. StopIsLast'
  BY DEF StopIsLast, EndsByStop, Before, Exited, NoStop
<1> QED
  BY <1>1, <1>2, <1>3

\* The queue of a worker is empty by then, unless an exception ended it.
LEMMA DestroyQueuesStep == ASSUME IInv, DestroyQueues PROVE IInv'
<1> USE DEF IInv, DestroyQueues, cacheVars
<1>1. /\ requests' \in Seq(Workers \cup {"User", "Message"})
      /\ queue' \in [Workers -> Seq(Item)] /\ \A t \in Workers : queue'[t] = << >>
  OBVIOUS
<1>2. TypeOK'
  BY <1>1 DEF TypeOK, Item
<1>3. Paired'
  BY <1>1 DEF Paired
<1>4. ThreadsExitFirst'
  BY DEF ThreadsExitFirst, Exited
<1>5. \A t \in Workers : Exited(t) /\ (t \notin broken => queue[t] = << >>)
  BY DEF ThreadsExitFirst, StopIsLast, EndsByStop
<1>6. StopIsLast'
  <2>1. ASSUME NEW t \in Workers, t \notin broken PROVE EndsByStop(t)'
    BY <1>1, <1>5, <2>1 DEF StopIsLast, EndsByStop, Before, Exited
  <2> QED
    BY <2>1 DEF StopIsLast, Before
<1>7. CachedNeverFreed'
  <2>1. ASSUME NEW f \in freed' PROVE f.worker \in broken'
    <3>1. f.worker \in Workers /\ \E i \in DOMAIN queue[f.worker] : queue[f.worker][i] = Cached(f.slot)
      BY <2>1
    <3>2. queue[f.worker] # << >>
      BY <3>1
    <3> QED
      BY <1>5, <3>1, <3>2
  <2> QED
    BY <2>1 DEF CachedNeverFreed
<1> QED
  BY <1>2, <1>3, <1>4, <1>6, <1>7

\* A worker takes the first notification of its queue; only a stop ends it.
LEMMA DeQueueStep == ASSUME IInv, NEW t \in Workers, DeQueue(t) PROVE IInv'
<1> DEFINE n == Head(queue[t])
<1> USE DEF IInv
<1>0. /\ queue \in [Workers -> Seq(Item)] /\ wpc[t] = "wait" /\ queue[t] # << >>
      /\ queue' = [queue EXCEPT ![t] = Tail(@)]
      /\ UNCHANGED <<cacheVars, scheduleVars, requests, mpc, broken, freed, faults>>
  BY DEF TypeOK, Item, DeQueue
<1>1. /\ queue[t] \in Seq(Item) /\ n \in Item /\ n = queue[t][1] /\ 1 \in 1 .. Len(queue[t])
      /\ Tail(queue[t]) \in Seq(Item)
      /\ \A i \in 1 .. Len(Tail(queue[t])) :
           i + 1 \in 1 .. Len(queue[t]) /\ Tail(queue[t])[i] = queue[t][i + 1]
  BY <1>0
<1>2. \A u \in Workers : queue'[u] = IF u = t THEN Tail(queue[t]) ELSE queue[u]
  BY <1>0
<1>3. /\ PacketOf(n) \in Item
      /\ PacketOf(n).code = "stop" <=> Stops(n)
  <2>1. CASE n.slot = 0
    BY <1>1, <2>1 DEF PacketOf, Stops
  <2>2. CASE n.slot # 0
    <3>1. points[n.slot] \in Slots
      BY <1>1, <2>2 DEF Paired
    <3>2. code[points[n.slot]] \in Codes
      BY <3>1 DEF TypeOK
    <3>3. PacketOf(n) = [slot |-> points[n.slot], code |-> code[points[n.slot]]]
      BY <2>2 DEF PacketOf
    <3> QED
      BY <2>2, <3>1, <3>2, <3>3, RuntimeAssumption DEF Item, Stops, Codes, Slots
  <2> QED
    BY <2>1, <2>2
<1>4. \/ Stops(n) /\ wpc' = [wpc EXCEPT ![t] = "exited"] /\ UNCHANGED work
      \/ ~Stops(n) /\ wpc' = [wpc EXCEPT ![t] = "work"] /\ work' = [work EXCEPT ![t] = PacketOf(n)]
  BY <1>3 DEF DeQueue
<1>5. TypeOK'
  <2>1. queue' \in [Workers -> Seq(Item)]
    BY <1>0, <1>1
  <2>2. wpc' \in [Workers -> {"wait", "work", "request", "exited"}]
    BY <1>4 DEF TypeOK
  <2>3. work' \in [Workers -> [slot : 0 .. CacheSize, code : Codes \cup {"none"}]]
    <3>1. CASE Stops(n)
      BY <1>4, <3>1 DEF TypeOK
    <3>2. CASE ~Stops(n)
      <4>1. PacketOf(n) \in [slot : 0 .. CacheSize, code : Codes \cup {"none"}]
        BY <1>3, <3>2 DEF Item
      <4>2. work \in [Workers -> [slot : 0 .. CacheSize, code : Codes \cup {"none"}]]
        BY DEF TypeOK
      <4>3. work' = [work EXCEPT ![t] = PacketOf(n)]
        BY <1>4, <3>2
      <4> QED
        BY <4>1, <4>2, <4>3, Zenon
    <3> QED
      BY <3>1, <3>2
  <2> QED
    BY <1>0, <2>1, <2>2, <2>3 DEF TypeOK, Item, cacheVars, scheduleVars
<1>6. Paired'
  <2> SUFFICES ASSUME NEW u \in Workers, NEW i \in 1 .. Len(queue'[u]), queue'[u][i].slot # 0
               PROVE  points[queue'[u][i].slot] \in Slots
    BY <1>0 DEF Paired, cacheVars
  <2>1. CASE u = t
    <3>1. /\ queue'[u] = Tail(queue[t]) /\ i + 1 \in 1 .. Len(queue[t])
          /\ queue'[u][i] = queue[t][i + 1]
      BY <2>1, <1>1, <1>2
    <3> QED
      BY <3>1 DEF Paired
  <2>2. CASE u # t
    BY <2>2, <1>2 DEF Paired
  <2> QED
    BY <2>1, <2>2
<1>7. wpc \in [Workers -> {"wait", "work", "request", "exited"}]
  BY DEF TypeOK
<1>8. ThreadsExitFirst'
  BY <1>0, <1>4, <1>7 DEF ThreadsExitFirst, scheduleVars, Exited
<1>9. StopIsLast'
  <2>0. StopIsLast /\ spc' = spc /\ UNCHANGED <<requestor, requests, broken>>
    BY <1>0 DEF scheduleVars
  <2>1. spc \in Before => NoStop(queue[t]) /\ ~Stops(n) /\ NoStop(Tail(queue[t]))
    BY <1>1, <2>0 DEF StopIsLast, NoStop
  <2>2. spc \in Before => \A u \in Workers : NoStop(queue'[u])
    BY <1>2, <2>0, <2>1 DEF StopIsLast
  <2>3. ASSUME NEW u \in Workers, u # t, u \notin broken PROVE EndsByStop(u)'
    <3>1. wpc'[u] = wpc[u] /\ queue'[u] = queue[u]
      BY <1>2, <1>4, <1>7, <2>3
    <3>2. EndsByStop(u)
      BY <2>3, <2>0 DEF StopIsLast
    <3> QED
      BY <2>0, <3>1, <3>2 DEF EndsByStop, Exited
  <2>4. ASSUME t \notin broken PROVE EndsByStop(t)'
    <3>0. EndsByStop(t) /\ wpc'[t] # "request" /\ (Exited(t)' <=> Stops(n))
      BY <1>4, <1>7, <2>0, <2>4 DEF StopIsLast, Exited
    <3>1. CASE spc # "wait"
      <4>1. spc \in Before
        BY <1>0, <3>1 DEF ThreadsExitFirst, TypeOK, Before, Exited
      <4> QED
        BY <2>0, <2>1, <3>0, <3>1, <4>1 DEF EndsByStop
    <3>2. CASE spc = "wait"
      <4>1. PICK q \in Seq(Item) : NoStop(q) /\ queue[t] = Append(q, OfHeap("stop"))
        BY <1>0, <3>0, <3>2 DEF EndsByStop, Exited
      <4>2. /\ n = (IF q = << >> THEN OfHeap("stop") ELSE Head(q))
            /\ Tail(queue[t]) = (IF q = << >> THEN << >> ELSE Append(Tail(q), OfHeap("stop")))
        BY <4>1, HeadTailAppend
      <4>3. CASE q = << >>
        <5>1. Stops(n)
          BY <4>2, <4>3 DEF Stops, OfHeap
        <5>2. queue'[t] = << >>
          BY <1>2, <4>2, <4>3
        <5> QED
          BY <2>0, <3>0, <3>2, <5>1, <5>2 DEF EndsByStop, Before
      <4>4. CASE q # << >>
        <5>1. /\ Head(q) = q[1] /\ 1 \in 1 .. Len(q) /\ Tail(q) \in Seq(Item)
              /\ \A i \in 1 .. Len(Tail(q)) : i + 1 \in 1 .. Len(q) /\ Tail(q)[i] = q[i + 1]
          BY <4>4
        <5>2. ~Stops(n) /\ NoStop(Tail(q))
          BY <4>1, <4>2, <4>4, <5>1 DEF NoStop
        <5>3. queue'[t] = Append(Tail(q), OfHeap("stop"))
          BY <1>2, <4>2, <4>4
        <5> QED
          BY <2>0, <3>0, <3>2, <5>1, <5>2, <5>3 DEF EndsByStop
      <4> QED
        BY <4>3, <4>4
    <3> QED
      BY <3>1, <3>2
  <2> QED
    BY <2>0, <2>2, <2>3, <2>4 DEF StopIsLast
<1>10. CachedNeverFreed'
  BY <1>0 DEF CachedNeverFreed
<1> QED
  BY <1>5, <1>6, <1>8, <1>9, <1>10

\* A worker that works, fails or asks for the stop has its queue untouched.
LEMMA WorkerStep ==
  ASSUME IInv, NEW t \in Workers, Handle(t) \/ Exception(t) \/ RequestStop(t)
  PROVE  IInv'
<1> USE RuntimeAssumption DEF IInv
<1>0. /\ UNCHANGED <<posted, code, points, control, scheduleVars, queue, mpc, freed>>
      /\ wpc \in [Workers -> {"wait", "work", "request", "exited"}]
      /\ wpc[t] \in {"work", "request"}
      /\ \E x \in {"wait", "request", "exited"} : wpc' = [wpc EXCEPT ![t] = x]
  BY DEF Handle, Exception, RequestStop, TypeOK, cacheVars
<1>1. complete' \in [Slots -> BOOLEAN]
  <2>1. CASE complete' = complete
    BY <2>1, Zenon DEF TypeOK
  <2>2. CASE complete' = [complete EXCEPT ![work[t].slot] = TRUE]
    BY <2>2, Zenon DEF TypeOK
  <2> QED
    BY <2>1, <2>2 DEF Handle, Exception, RequestStop, cacheVars
<1>2. work' \in [Workers -> [slot : 0 .. CacheSize, code : Codes \cup {"none"}]]
  <2>1. work' = work \/ work' = [work EXCEPT ![t] = NoWork]
    BY DEF Handle, Exception, RequestStop
  <2>2. NoWork \in [slot : 0 .. CacheSize, code : Codes \cup {"none"}]
    BY DEF NoWork, OfHeap
  <2> QED
    BY <2>1, <2>2 DEF TypeOK
<1>3. requests' \in Seq(Workers \cup {"User", "Message"})
  <2>1. requests' = requests \/ requests' = Append(requests, t)
    BY DEF Handle, Exception, RequestStop
  <2>2. requests \in Seq(Workers \cup {"User", "Message"})
    BY DEF TypeOK
  <2> QED
    BY <2>1, <2>2
<1>4. faults' \in 0 .. MaxFaults
  BY DEF Handle, Exception, RequestStop, TypeOK, Fault
<1>5. posted' \in [Slots -> BOOLEAN] /\ broken' \in SUBSET Workers
  <2>1. posted' = posted /\ broken' \in {broken, broken \cup {t}}
    BY DEF Handle, Exception, RequestStop, cacheVars
  <2> QED
    BY <2>1, Zenon DEF TypeOK
<1>6. TypeOK'
  BY <1>0, <1>1, <1>2, <1>3, <1>4, <1>5 DEF TypeOK, scheduleVars
<1>7. Paired'
  BY <1>0 DEF Paired
<1>8. ThreadsExitFirst'
  BY <1>0 DEF ThreadsExitFirst, scheduleVars, Exited
<1>9. StopIsLast'
  <2>1. broken \subseteq broken' /\ (Exception(t) => t \in broken') /\ (~Exception(t) => broken' = broken)
    BY DEF Handle, Exception, RequestStop
  <2>2. ASSUME NEW u \in Workers, u \notin broken' PROVE EndsByStop(u)'
    <3>1. u \notin broken /\ EndsByStop(u)
      BY <2>1, <2>2 DEF StopIsLast
    <3>2. requests' = requests \/ (requests' = Append(requests, t) /\ u # t)
      BY <3>1 DEF Handle, Exception, RequestStop, EndsByStop
    <3>3. requests \in Seq(Workers \cup {"User", "Message"})
      BY DEF TypeOK
    <3>4. \A i \in 1 .. Len(requests') : requests'[i] # u
      BY <3>1, <3>2, <3>3 DEF EndsByStop
    <3>5. wpc'[u] # "request" /\ (Exited(u)' <=> Exited(u))
      <4>1. CASE u # t
        BY <1>0, <3>1, <4>1 DEF EndsByStop, Exited
      <4>2. CASE u = t
        <5>1. Handle(t)
          BY <2>1, <2>2, <3>1, <4>2 DEF EndsByStop, RequestStop
        <5>2. wpc' = [wpc EXCEPT ![t] = "wait"] /\ wpc[t] = "work"
          BY <5>1 DEF Handle
        <5> QED
          BY <1>0, <4>2, <5>2 DEF Exited
      <4> QED
        BY <4>1, <4>2
    <3> QED
      BY <1>0, <3>1, <3>4, <3>5 DEF EndsByStop, scheduleVars
  <2> QED
    BY <1>0, <2>2 DEF StopIsLast, scheduleVars, NoStop
<1>10. CachedNeverFreed'
  BY <1>0 DEF Handle, Exception, RequestStop, CachedNeverFreed
<1> QED
  BY <1>6, <1>7, <1>8, <1>9, <1>10

\* The message thread asks in its own or the user's name.
LEMMA MessageStep == ASSUME IInv, Message \/ StopRuntime PROVE IInv'
<1> USE RuntimeAssumption DEF IInv
<1>0. /\ UNCHANGED messageRest /\ mpc # "exited"
      /\ mpc' \in {"create", "accept", "serve", "ack", "broken", "exited"}
  BY DEF Message, StopRuntime, CreatePort, CreatePortFails, AcceptPort, GetStopRequest,
         GetMessageFails
<1>1. faults' \in 0 .. MaxFaults
  BY DEF Message, StopRuntime, CreatePort, CreatePortFails, AcceptPort, GetStopRequest,
         GetMessageFails, TypeOK, Fault
<1>2. requests' = requests \/ \E x \in {"User", "Message"} : requests' = Append(requests, x)
  BY DEF Message, StopRuntime, CreatePort, CreatePortFails, AcceptPort, GetStopRequest,
         GetMessageFails
<1>3. requests \in Seq(Workers \cup {"User", "Message"})
  BY DEF TypeOK
<1>4. requests' \in Seq(Workers \cup {"User", "Message"})
  BY <1>2, <1>3
<1>5. TypeOK'
  BY <1>0, <1>1, <1>4 DEF TypeOK, messageRest, cacheVars, scheduleVars, workerVars
<1>6. Paired' /\ ThreadsExitFirst'
  BY <1>0 DEF Paired, ThreadsExitFirst, messageRest, cacheVars, scheduleVars, workerVars,
              Exited
<1>7. StopIsLast'
  <2>1. ASSUME NEW t \in Workers, t \notin broken PROVE EndsByStop(t)'
    <3>1. EndsByStop(t)
      BY <2>1 DEF StopIsLast
    <3>2. \A i \in 1 .. Len(requests') : requests'[i] # t
      BY <1>2, <1>3, <3>1 DEF EndsByStop, Workers
    <3> QED
      BY <1>0, <3>1, <3>2 DEF EndsByStop, messageRest, scheduleVars, workerVars, Exited
  <2> QED
    BY <1>0, <2>1 DEF StopIsLast, messageRest, scheduleVars, workerVars, NoStop
<1>8. CachedNeverFreed'
  BY <1>0 DEF CachedNeverFreed, messageRest
<1> QED
  BY <1>5, <1>6, <1>7, <1>8

\* One step per action.
LEMMA InductiveStep == IInv /\ [Next]_vars => IInv'
<1> SUFFICES ASSUME IInv, [Next]_vars PROVE IInv'
  OBVIOUS
<1>0. quantum \in 0 .. 3 /\ NextQuantum \in 0 .. 3
  BY DEF IInv, TypeOK, NextQuantum
<1>1. ASSUME Timer PROVE IInv'
  <2>1. /\ ScheduleWork("Write", "flush") /\ quantum' \in 0 .. 3
        /\ spc \in Before \ {"stop"} /\ spc' \in Before \ {"stop"}
        /\ UNCHANGED <<requestor, requests, wpc, work, mpc, broken, freed, faults>>
    BY <1>0, <1>1 DEF Timer, Before
  <2> QED
    BY <2>1, TickStep DEF Workers, Codes
<1>2. ASSUME ScheduleScanLookaside PROVE IInv'
  <2>1. /\ ScheduleWork("Watch", "lookaside") /\ quantum' \in 0 .. 3
        /\ spc \in Before \ {"stop"} /\ spc' \in Before \ {"stop"}
        /\ UNCHANGED <<requestor, requests, wpc, work, mpc, broken, freed, faults>>
    BY <1>0, <1>2 DEF ScheduleScanLookaside, Before
  <2> QED
    BY <2>1, TickStep DEF Workers, Codes
<1>3. ASSUME ScheduleScanStackTrace PROVE IInv'
  <2>1. /\ ScheduleWork("Watch", "stacktrace") /\ quantum' \in 0 .. 3
        /\ spc \in Before \ {"stop"} /\ spc' \in Before \ {"stop"}
        /\ UNCHANGED <<requestor, requests, wpc, work, mpc, broken, freed, faults>>
    BY <1>0, <1>3 DEF ScheduleScanStackTrace, Before
  <2> QED
    BY <2>1, TickStep DEF Workers, Codes
<1>4. CASE UNCHANGED vars
  <2>1. TypeOK'
    BY <1>4 DEF IInv, vars, TypeOK, cacheVars, scheduleVars, workerVars
  <2>2. Paired' /\ ThreadsExitFirst' /\ StopIsLast' /\ CachedNeverFreed'
    BY <1>4 DEF IInv, vars, Paired, ThreadsExitFirst, StopIsLast, EndsByStop,
                CachedNeverFreed, cacheVars, scheduleVars, workerVars, Exited, NoStop
  <2> QED
    BY <2>1, <2>2 DEF IInv
<1> QED
  BY <1>1, <1>2, <1>3, <1>4, ScheduleDeQueueStep, ScheduleExceptionStep, ScheduleStopStep,
     WaitExitsStep, DestroyQueuesStep, DeQueueStep, WorkerStep, MessageStep
  DEF Next, Schedule, Worker

\* IInv is an invariant of the runtime.
LEMMA Inductive == Spec => []IInv
BY InductiveInit, InductiveStep, PTL DEF Spec

\* The packets, queues and threads of the runtime keep their ranges, although
\* the pairs of the cache are mixed up (btr/queue.c).
THEOREM RuntimeTypes == Spec => []TypeOK
BY Inductive, PTL DEF IInv

\* BtrDestroyQueue gives the heap no packet of the schedule thread's stack out
\* of the queue of a worker that ended by its stop, whoever asked for the stop
\* and whatever else failed; in the queue of a worker that an exception ended
\* there may be some.
THEOREM CachedPacketsStay == Spec => []CachedNeverFreed
BY Inductive, PTL DEF IInv
================================================================================
