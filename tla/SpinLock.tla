-------------------------------- MODULE SpinLock --------------------------------
(***************************************************************************)
(* BTR_SPINLOCK (btr/lock.c, and its copy in dprobe/mspdtl.c): two words,   *)
(* the bit Acquired and the owner's ThreadId, written one after the other.  *)
(* The lock lives in memory shared by processes that may be terminated at   *)
(* any point, and the system gives the id of a thread that has gone to a    *)
(* new one, which the test for re-entry then takes for the owner.           *)
(* No caller acquires the lock twice, so a thread that finds its own id in  *)
(* ThreadId found that of a predecessor.                                    *)
(***************************************************************************)
EXTENDS Integers

CONSTANTS
  Threads,      \* thread ids; one thread at a time has an id
  NoThread,     \* the id 0, which no thread has
  Mortal,       \* the threads of processes that may be terminated
  SpinCount,    \* PBTR_SPINLOCK->SpinCount
  MaxDeaths     \* bound: threads terminated

ASSUME SpinLockAssumption ==
  /\ NoThread \notin Threads
  /\ Mortal \subseteq Threads
  /\ SpinCount \in Nat \ {0}
  /\ MaxDeaths \in Nat

VARIABLES
  Acquired,     \* Lock->Acquired, bit 0
  ThreadId,     \* Lock->ThreadId
  pc,           \* per thread: where it is, "gone" when it was terminated
  count,        \* per thread: Count of the inner loop
  taker,        \* history: the id that set the bit, NoThread when it is clear
  orphan,       \* history: that id's thread was terminated before clearing the bit
  deaths

vars == <<Acquired, ThreadId, pc, count, taker, orphan, deaths>>

\* inside: from the return of the acquire to the end of the release
Inside  == {"inside", "release"}
Holding == {"own"} \cup Inside

Init ==
  /\ Acquired = 0 /\ ThreadId = NoThread
  /\ pc = [t \in Threads |-> "idle"]
  /\ count = [t \in Threads |-> 0]
  /\ taker = NoThread /\ orphan = FALSE /\ deaths = 0

Go(t, from, to) == pc[t] = from /\ pc' = [pc EXCEPT ![t] = to]

\* slips of the code, for comparison
ClearOwnerForgotten(t) ==
  /\ Go(t, "inside", "release")
  /\ UNCHANGED <<Acquired, ThreadId, count, taker, orphan, deaths>>
ClearBitForgotten(t) ==
  /\ Go(t, "release", "idle")
  /\ UNCHANGED <<Acquired, ThreadId, count, taker, orphan, deaths>>
CountTooLong(t) ==
  /\ Go(t, "look", IF Acquired = 0 \/ count[t] >= SpinCount THEN "try" ELSE "look")
  /\ count' = [count EXCEPT ![t] = @ + 1]
  /\ UNCHANGED <<Acquired, ThreadId, taker, orphan, deaths>>

\* the caller of the lock is about to take it, and looks whether it has it
TestOwner(t) ==
  /\ Go(t, "idle", IF ThreadId = t THEN "inside" ELSE "try")
  /\ UNCHANGED <<Acquired, ThreadId, count, taker, orphan, deaths>>

SetBit(t) ==
  /\ Acquired = 0
  /\ Go(t, "try", "own")
  /\ Acquired' = 1 /\ taker' = t
  /\ UNCHANGED <<ThreadId, count, orphan, deaths>>

BitWasSet(t) ==
  /\ Acquired = 1
  /\ Go(t, "try", "look")
  /\ count' = [count EXCEPT ![t] = 0]
  /\ UNCHANGED <<Acquired, ThreadId, taker, orphan, deaths>>

StoreOwner(t) ==
  /\ Go(t, "own", "inside")
  /\ ThreadId' = t
  /\ UNCHANGED <<Acquired, count, taker, orphan, deaths>>

\* the inner loop: until the bit is seen clear, or SpinCount times and a yield
Look(t) ==
  /\ Go(t, "look", IF Acquired = 0 \/ count[t] + 1 >= SpinCount THEN "try" ELSE "look")
  /\ count' = [count EXCEPT ![t] = @ + 1]
  /\ UNCHANGED <<Acquired, ThreadId, taker, orphan, deaths>>

ClearOwner(t) ==
  /\ Go(t, "inside", "release")
  /\ ThreadId' = NoThread
  /\ UNCHANGED <<Acquired, count, taker, orphan, deaths>>

ClearBit(t) ==
  /\ Go(t, "release", "idle")
  /\ Acquired' = 0 /\ taker' = NoThread /\ orphan' = FALSE
  /\ UNCHANGED <<ThreadId, count, deaths>>

\* the process is terminated
Terminate(t) ==
  /\ t \in Mortal /\ pc[t] # "gone" /\ deaths < MaxDeaths
  /\ pc' = [pc EXCEPT ![t] = "gone"]
  /\ deaths' = deaths + 1
  /\ orphan' = (orphan \/ pc[t] \in Holding)
  /\ UNCHANGED <<Acquired, ThreadId, count, taker>>

\* a new thread is given the id
Reuse(t) ==
  /\ Go(t, "gone", "idle")
  /\ UNCHANGED <<Acquired, ThreadId, count, taker, orphan, deaths>>

Step(t) ==
  \/ SetBit(t) \/ BitWasSet(t) \/ StoreOwner(t) \/ Look(t)
  \/ ClearOwner(t) \/ ClearBit(t)

Next == \E t \in Threads : TestOwner(t) \/ Step(t) \/ Terminate(t) \/ Reuse(t)

\* a thread that has begun goes on; when one begins is nobody's duty
Spec == Init /\ [][Next]_vars /\ \A t \in Threads : WF_vars(Step(t))
-----------------------------------------------------------------------------
TypeOK ==
  /\ Acquired \in {0, 1}
  /\ ThreadId \in Threads \cup {NoThread}
  /\ pc \in [Threads -> {"idle", "try", "own", "look", "gone"} \cup Inside]
  /\ count \in [Threads -> 0 .. SpinCount]
  /\ taker \in Threads \cup {NoThread}
  /\ orphan \in BOOLEAN
  /\ deaths \in 0 .. MaxDeaths

\* Two threads are never past BtrAcquireSpinLock at once, although the id of a
\* thread that was terminated at any point may come back as another thread's
\* and then passes the test of ThreadId without taking the bit.
MutualExclusion ==
  \A t, u \in Threads : pc[t] \in Inside /\ pc[u] \in Inside => t = u

\* The lock is the atomic one SharedCache uses: it is taken when nobody holds
\* it, and a thread is inside, and gives it back, only when its id holds it.
Lock == INSTANCE Mutex WITH 
  holder <- taker, inside <- {t \in Threads : pc[t] \in Inside}
ImplementsMutex == Lock!Spec

Waiting(t) == pc[t] \in {"try", "look"}

\* Of the threads that spin for the lock one gets in (which one is not said: a
\* thread may starve), unless they or its holder are terminated.
SomeoneEnters ==
  (\E t \in Threads : Waiting(t))
    ~> \/ \E t \in Threads : pc[t] \in Inside
       \/ orphan \/ \A t \in Threads : ~Waiting(t) /\ pc[t] # "own"
================================================================================
