----------------------------- MODULE SpinLockProofs -----------------------------
(***************************************************************************)
(* Two threads are never inside the spin lock of the shared page, for every *)
(* number of threads, of terminated threads and of reused ids, and the two  *)
(* words written one after the other implement the lock taken in one step.  *)
(*                                                                          *)
(* The strengthening: history variable taker names the one thread past      *)
(* SetBit, and ThreadId never names anyone else, so the thread that skips   *)
(* the bit because ThreadId is its own id is the one that set it, or has    *)
(* the id of the one that did.                                              *)
(***************************************************************************)
EXTENDS SpinLock, TLAPS

BitMatchesTaker == Acquired = 0 <=> taker = NoThread
HolderTook      == \A t \in Threads : pc[t] \in Holding => taker = t
OwnerIsTaker    == ThreadId # NoThread => ThreadId = taker
OwnerStored     == \A t \in Threads : pc[t] = "inside" => ThreadId = t
OwnerCleared    == \A t \in Threads : pc[t] = "release" => ThreadId = NoThread
CountBelow      == \A t \in Threads : pc[t] = "look" => count[t] < SpinCount

IInv ==
  /\ TypeOK /\ BitMatchesTaker /\ HolderTook /\ OwnerIsTaker
  /\ OwnerStored /\ OwnerCleared /\ CountBelow

\* Nobody has the lock at first.
LEMMA InductiveInit == Init => IInv
<1> SUFFICES ASSUME Init PROVE IInv
  OBVIOUS
<1>1. orphan \in BOOLEAN
  BY DEF Init
<1>2. /\ Acquired \in {0, 1} /\ ThreadId \in Threads \cup {NoThread}
      /\ pc \in [Threads -> {"idle", "try", "own", "look", "gone"} \cup Inside]
      /\ count \in [Threads -> 0 .. SpinCount]
      /\ taker \in Threads \cup {NoThread} /\ deaths \in 0 .. MaxDeaths
  BY SpinLockAssumption DEF Init
<1>3. BitMatchesTaker /\ HolderTook /\ OwnerIsTaker /\ OwnerStored /\ OwnerCleared
      /\ CountBelow
  BY SpinLockAssumption
  DEF Init, BitMatchesTaker, HolderTook, OwnerIsTaker, OwnerStored, OwnerCleared,
      CountBelow, Inside, Holding
<1> QED
  BY <1>1, <1>2, <1>3 DEF IInv, TypeOK

\* One step per action; the bit and the owner move with the thread that holds.
LEMMA InductiveStep == IInv /\ [Next]_vars => IInv'
<1> SUFFICES ASSUME IInv, [Next]_vars PROVE IInv'
  OBVIOUS
<1> USE SpinLockAssumption
    DEF IInv, TypeOK, BitMatchesTaker, HolderTook, OwnerIsTaker, OwnerStored,
        OwnerCleared, CountBelow, Inside, Holding, Go
<1>1. ASSUME NEW t \in Threads, TestOwner(t) PROVE IInv'
  BY <1>1 DEF TestOwner
<1>2. ASSUME NEW t \in Threads, SetBit(t) PROVE IInv'
  BY <1>2 DEF SetBit
<1>3. ASSUME NEW t \in Threads, BitWasSet(t) PROVE IInv'
  BY <1>3 DEF BitWasSet
<1>4. ASSUME NEW t \in Threads, StoreOwner(t) PROVE IInv'
  BY <1>4 DEF StoreOwner
<1>5. ASSUME NEW t \in Threads, Look(t) PROVE IInv'
  BY <1>5 DEF Look
<1>6. ASSUME NEW t \in Threads, ClearOwner(t) PROVE IInv'
  BY <1>6 DEF ClearOwner
<1>7. ASSUME NEW t \in Threads, ClearBit(t) PROVE IInv'
  <2>1. orphan' \in BOOLEAN
    BY <1>7 DEF ClearBit
  <2>2. /\ Acquired' \in {0, 1} /\ taker' \in Threads \cup {NoThread}
        /\ pc' \in [Threads -> {"idle", "try", "own", "look", "gone"} \cup Inside]
        /\ UNCHANGED <<ThreadId, count, deaths>>
    BY <1>7 DEF ClearBit
  <2>3. (BitMatchesTaker /\ HolderTook /\ OwnerIsTaker /\ OwnerStored /\ OwnerCleared
      /\ CountBelow)'
    BY <1>7 DEF ClearBit
  <2> QED
    BY <2>1, <2>2, <2>3
<1>8. ASSUME NEW t \in Threads, Terminate(t) PROVE IInv'
  <2>1. orphan' \in BOOLEAN
    <3>1. orphan' = (orphan \/ pc[t] \in Holding)
      BY <1>8 DEF Terminate
    <3> QED
      BY <3>1, Zenon
  <2>2. /\ pc' \in [Threads -> {"idle", "try", "own", "look", "gone"} \cup Inside]
        /\ deaths' \in 0 .. MaxDeaths
        /\ UNCHANGED <<Acquired, ThreadId, count, taker>>
    BY <1>8 DEF Terminate
  <2>3. (BitMatchesTaker /\ HolderTook /\ OwnerIsTaker /\ OwnerStored /\ OwnerCleared
      /\ CountBelow)'
    BY <1>8 DEF Terminate
  <2> QED
    BY <2>1, <2>2, <2>3
<1>9. ASSUME NEW t \in Threads, Reuse(t) PROVE IInv'
  BY <1>9 DEF Reuse
<1>10. CASE UNCHANGED vars
  BY <1>10 DEF vars
<1> QED
  BY <1>1, <1>2, <1>3, <1>4, <1>5, <1>6, <1>7, <1>8, <1>9, <1>10 DEF Next, Step

\* IInv is an invariant of the lock.
LEMMA Inductive == Spec => []IInv
BY InductiveInit, InductiveStep, PTL DEF Spec

\* The types of the two words and of the threads.
THEOREM SpinLockTypes == Spec => []TypeOK
<1>1. IInv => TypeOK
  BY DEF IInv
<1> QED
  BY <1>1, Inductive, PTL

\* BtrAcquireSpinLock and BtrReleaseSpinLock keep two threads from being inside
\* at once, whatever threads are terminated and whatever ids come back.
THEOREM SpinLockExcludes == Spec => []MutualExclusion
<1>1. IInv => MutualExclusion
  BY DEF IInv, HolderTook, Holding, MutualExclusion
<1> QED
  BY <1>1, Inductive, PTL

\* Every step of the two words is a step of the lock SharedCache takes and
\* gives back at once, or changes nothing of it.
THEOREM SpinLockImplements == Spec => ImplementsMutex
<1>1. Init => Lock!Init
  BY DEF Init, Lock!Init, Inside
<1>2. IInv /\ [Next]_vars => [Lock!Next]_(Lock!mutexVars)
  <2> SUFFICES ASSUME IInv, [Next]_vars PROVE [Lock!Next]_(Lock!mutexVars)
    OBVIOUS
  <2> DEFINE in == {u \in Threads : pc[u] \in Inside}
  <2> USE SpinLockAssumption
      DEF IInv, TypeOK, BitMatchesTaker, HolderTook, OwnerIsTaker, OwnerStored,
          Inside, Holding, Go, Lock!Next, Lock!mutexVars
  <2>1. ASSUME NEW t \in Threads, TestOwner(t) PROVE [Lock!Next]_(Lock!mutexVars)
    <3>1. CASE ThreadId = t
      <4>1. taker = t /\ taker' = taker
        BY <2>1, <3>1 DEF TestOwner
      <4>2. in' = in \cup {t}
        BY <2>1, <3>1 DEF TestOwner
      <4> QED
        BY <4>1, <4>2 DEF Lock!Enter
    <3>2. CASE ThreadId # t
      BY <2>1, <3>2 DEF TestOwner
    <3> QED
      BY <3>1, <3>2
  <2>2. ASSUME NEW t \in Threads, SetBit(t) PROVE [Lock!Next]_(Lock!mutexVars)
    <3>1. in' = in
      BY <2>2 DEF SetBit
    <3> QED
      BY <2>2, <3>1 DEF SetBit, Lock!Take
  <2>3. ASSUME NEW t \in Threads, BitWasSet(t) \/ Look(t) \/ Reuse(t) \/ ClearOwner(t)
        PROVE  [Lock!Next]_(Lock!mutexVars)
    <3>1. in' = in
      BY <2>3 DEF BitWasSet, Look, Reuse, ClearOwner
    <3> QED
      BY <2>3, <3>1 DEF BitWasSet, Look, Reuse, ClearOwner
  <2>4. ASSUME NEW t \in Threads, StoreOwner(t) PROVE [Lock!Next]_(Lock!mutexVars)
    <3>1. taker = t /\ taker' = taker
      BY <2>4 DEF StoreOwner
    <3>2. in' = in \cup {t}
      BY <2>4 DEF StoreOwner
    <3> QED
      BY <3>1, <3>2 DEF Lock!Enter
  <2>5. ASSUME NEW t \in Threads, ClearBit(t) PROVE [Lock!Next]_(Lock!mutexVars)
    <3>1. taker = t /\ taker' = NoThread
      BY <2>5 DEF ClearBit
    <3>2. in' = in \ {t}
      BY <2>5 DEF ClearBit
    <3> QED
      BY <3>1, <3>2 DEF Lock!Give
  <2>6. ASSUME NEW t \in Threads, Terminate(t) PROVE [Lock!Next]_(Lock!mutexVars)
    <3>1. taker' = taker
      BY <2>6 DEF Terminate
    <3>2. in' = in \ {t}
      BY <2>6 DEF Terminate
    <3> QED
      BY <3>1, <3>2 DEF Lock!Die
  <2>7. CASE UNCHANGED vars
    BY <2>7 DEF vars
  <2> QED
    BY <2>1, <2>2, <2>3, <2>4, <2>5, <2>6, <2>7 DEF Next, Step
<1> QED
  BY <1>1, <1>2, Inductive, PTL DEF Spec, ImplementsMutex, Lock!Spec
================================================================================
