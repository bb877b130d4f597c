---------------------------- MODULE ProbeCallsProofs ----------------------------
(***************************************************************************)
(* Thread objects of ProbeCalls, for any number of threads, nested calls,   *)
(* registrations and faults: who has one, in which list it may be, and what *)
(* the schedule thread knows of a thread whose object it has judged.        *)
(*                                                                          *)
(* Then the references of a probe object: the count is never below the      *)
(* number of frames and of calls in the runtime that hold the probe, so a   *)
(* count of zero and the places of the suspended threads together say that  *)
(* nothing uses it.                                                         *)
(***************************************************************************)
EXTENDS ProbeCalls, FiniteSetTheorems, TLAPS

Lists == {"unused", "none", "active", "rundown", "pool", "pending", "complete", "closed"}
Thread == [list : Lists, exempt : BOOLEAN, mapped : BOOLEAN, gone : BOOLEAN]

Types ==
  /\ object \in [Objects -> Thread]
  /\ pc \in [Threads -> {"new", "app", "stub", "check", "build", "insert", "store", "known",
                         "capture", "write", "leave", "detach", "cookie", "gone"}]
  /\ frames \in [Threads -> Seq(0 .. MaxProbes)] /\ at \in [Threads -> 0 .. MaxProbes]
  /\ tls \in [Threads -> {"none", "null", "object", "cookie"}]
  /\ mine \in [Threads -> Objects \cup {0}] /\ patched \in 0 .. MaxProbes

ListOf(t) == object[mine[t]].list

\* The thread has an object, and not one that it only still names.
Has(t) == mine[t] # 0 /\ ~GaveBack(t)

\* A thread object has one owner at most, and none when it is given back or
\* its thread has ended.
Owned ==
  /\ \A t \in Threads : Has(t) =>
       ListOf(t) \notin {"unused", "pool"} /\ ~object[mine[t]].gone
  /\ \A t, u \in Threads : Has(t) /\ Has(u) /\ mine[t] = mine[u] => t = u

\* What the stack base says of the object, and where a thread needs one.
StackNames(t) ==
  /\ tls[t] = "object" =>
       /\ mine[t] # 0
       /\ pc[t] = "detach" => ListOf(t) = "none"
       /\ pc[t] = "cookie" => frames[t] = << >> \/ ListOf(t) = "rundown"
       /\ pc[t] \notin {"detach", "cookie"} => ListOf(t) \in {"active", "pending", "complete", "closed"}
  /\ tls[t] = "cookie" => mine[t] = 0 \/ ListOf(t) \in {"rundown", "closed"}
  /\ tls[t] \in {"none", "null"} /\ mine[t] # 0 =>
       IF pc[t] = "insert" THEN ListOf(t) = "none"
       ELSE ListOf(t) = "closed" \/ (pc[t] = "store" /\ ListOf(t) \in {"active", "pending", "complete"})
  /\ pc[t] \in {"insert", "store", "known", "capture", "write", "detach", "cookie"} \/ frames[t] # << >> =>
       mine[t] # 0
  /\ pc[t] \in {"detach", "cookie"} => tls[t] = "object"
  /\ pc[t] \in {"build", "insert"} => tls[t] = "null" /\ frames[t] = << >>
  /\ pc[t] = "store" => tls[t] \in {"none", "null"} /\ frames[t] = << >>
  /\ pc[t] \in {"new", "build", "gone"} => mine[t] = 0

\* How far the unloading is.
Phases ==
  /\ \A o \in Objects : object[o].list \in {"pending", "complete", "closed"} =>
       spc \in {"scan", "wait", "close", "quiesce", "again", "unloaded", "blind", "blocked"}
  /\ spc \in {"close", "quiesce", "again", "unloaded"} => None("pending")
  /\ spc \in {"wait", "close", "quiesce", "again", "unloaded"} => \A t \in Threads \ slipped :
       pc[t] \notin {"build", "insert"} /\ (Has(t) => ListOf(t) # "active")
  /\ spc = "unloaded" => \A t \in Threads \ slipped : pc[t] \in {"new", "app", "gone"}

\* A thread judged complete has no frame and takes no record any more.
Judged(t) ==
  Has(t) /\ ListOf(t) \in {"complete", "closed"} =>
    frames[t] = << >> /\ pc[t] \in {"app", "stub", "check", "leave"}

\* Only an object with its views lets its thread into a call.
Mapped(t) ==
  Has(t) /\ (~object[mine[t]].exempt \/ frames[t] # << >> \/ pc[t] \in {"capture", "write"})
    => object[mine[t]].mapped \/ ListOf(t) = "closed"

IInv ==
  /\ Types /\ Owned /\ Phases
  /\ \A t \in Threads : StackNames(t)
  /\ \A t \in Threads \ slipped : Judged(t) /\ Mapped(t)

-----------------------------------------------------------------------------
(* Steps of a thread.                                                       *)
Same(u) ==
  /\ pc'[u] = pc[u] /\ frames'[u] = frames[u] /\ tls'[u] = tls[u] /\ mine'[u] = mine[u]
  /\ Has(u) => object'[mine[u]] = object[mine[u]]

LEMMA Kept ==
  ASSUME NEW u \in Threads, Same(u)
  PROVE  /\ StackNames(u) => StackNames(u)'
         /\ Judged(u) => Judged(u)'
         /\ Mapped(u) => Mapped(u)'
<1> USE DEF Same, ListOf
<1>1. /\ (Has(u)' <=> Has(u)) /\ (Has(u) => object'[mine'[u]] = object[mine[u]])
      /\ (GaveBack(u)' <=> GaveBack(u))
  BY DEF Has, GaveBack
<1>2. StackNames(u) => StackNames(u)'
  <2>1. CASE Has(u)
    <3>1. object'[mine'[u]] = object[mine[u]]
      BY <1>1, <2>1
    <3> QED
      BY <3>1 DEF StackNames
  <2>2. CASE ~Has(u)
    BY <2>2 DEF StackNames, Has, GaveBack
  <2> QED
    BY <2>1, <2>2
<1>3. (Judged(u) => Judged(u)') /\ (Mapped(u) => Mapped(u)')
  BY <1>1 DEF Judged, Mapped
<1> QED
  BY <1>2, <1>3

\* What thread t has to keep of itself when it takes a step.
Own(t) ==
  /\ Has(t) => /\ ListOf(t) \notin {"unused", "pool"} /\ ~object[mine[t]].gone
               /\ \A u \in Threads \ {t} : Has(u) => mine[u] # mine[t]
  /\ StackNames(t)
  /\ t \notin slipped => Judged(t) /\ Mapped(t)
  /\ t \notin slipped /\ spc \in {"wait", "close", "quiesce", "again", "unloaded"} =>
       pc[t] \notin {"build", "insert"} /\ (Has(t) => ListOf(t) # "active")

Judgements == {"pending", "complete", "closed"}
Later == {"scan", "wait", "close", "quiesce", "again", "unloaded", "blind", "blocked"}

LEMMA ThreadStep ==
  ASSUME IInv, Types', NEW t \in Threads, spc # "unloaded", spc' = spc, Own(t)',
         slipped \subseteq slipped', \A u \in Threads \ {t} : Same(u),
         \A o \in Objects : object'[o].list \in Judgements => object'[o].list = object[o].list
  PROVE  IInv'
<1> USE DEF IInv
<1>0. \A u \in Threads \ {t} : Has(u)' <=> Has(u)
  BY DEF Same, Has, GaveBack
<1>1. Owned'
  <2>1. \A u \in Threads : Has(u)' => ListOf(u)' \notin {"unused", "pool"} /\ ~object'[mine'[u]].gone
    BY <1>0 DEF Owned, Own, Same, ListOf
  <2>2. \A u, v \in Threads : Has(u)' /\ Has(v)' /\ mine'[u] = mine'[v] => u = v
    BY <1>0 DEF Owned, Own, Same
  <2> QED
    BY <2>1, <2>2 DEF Owned
<1>2. Phases'
  <2>1. \A o \in Objects : object'[o].list \in Judgements => spc' \in Later
    BY DEF Phases, Judgements, Later
  <2>2. spc' \in {"close", "quiesce", "again", "unloaded"} => None("pending")'
    BY DEF Phases, Judgements, None
  <2>3. spc' \in {"wait", "close", "quiesce", "again", "unloaded"} => \A u \in Threads \ slipped' :
          pc'[u] \notin {"build", "insert"} /\ (Has(u)' => ListOf(u)' # "active")
    BY <1>0 DEF Phases, Own, Same, ListOf
  <2> QED
    BY <2>1, <2>2, <2>3 DEF Phases, Judgements, Later
<1>3. \A u \in Threads : StackNames(u)'
  BY Kept DEF Own
<1>4. ASSUME NEW u \in Threads \ slipped' PROVE Judged(u)' /\ Mapped(u)'
  <2>1. CASE u = t
    BY <2>1 DEF Own
  <2>2. CASE u # t
    <3>1. u \in Threads /\ u \notin slipped
      OBVIOUS
    <3>2. Same(u)
      BY <2>2, <3>1
    <3>3. Judged(u) /\ Mapped(u)
      BY <3>1
    <3> QED
      BY <3>1, <3>2, <3>3, Kept
  <2> QED
    BY <2>1, <2>2
<1> QED
  BY <1>1, <1>2, <1>3, <1>4

\* A step that leaves the objects and their lists alone.
LEMMA QuietStep ==
  ASSUME IInv, Types', NEW t \in Threads, spc # "unloaded", UNCHANGED <<object, mine, spc, slipped>>,
         pc[t] # "cookie",
         \A u \in Threads \ {t} : pc'[u] = pc[u] /\ frames'[u] = frames[u] /\ tls'[u] = tls[u],
         StackNames(t)',
         t \notin slipped =>
           Judged(t)' /\ Mapped(t)' /\ (pc'[t] \in {"build", "insert"} => spc = "run")
  PROVE  IInv'
<1>1. \A u \in Threads \ {t} : Same(u)
  BY DEF Same
<1>2. (Has(t)' => Has(t)) /\ \A u \in Threads \ {t} : Has(u)' <=> Has(u)
  BY DEF Has, GaveBack
<1>3. Own(t)'
  BY <1>2 DEF IInv, Own, Owned, Phases, ListOf
<1> QED
  BY <1>1, <1>3, ThreadStep

LEMMA Popped == ASSUME NEW S, NEW s \in Seq(S), s # << >>
                PROVE  Front(s) \in Seq(S) /\ Last(s) \in S
<1>1. Len(s) \in Nat \ {0}
  OBVIOUS
<1>2. Last(s) \in S
  BY <1>1 DEF Last
<1>3. Front(s) \in Seq(S)
  BY <1>1 DEF Front
<1> QED
  BY <1>2, <1>3

LEMMA Updated ==
  ASSUME NEW a \in Thread, NEW l \in Lists, NEW e \in BOOLEAN, NEW m \in BOOLEAN
  PROVE  /\ [a EXCEPT !.list = l] \in Thread /\ [a EXCEPT !.exempt = e] \in Thread
         /\ [a EXCEPT !.gone = TRUE] \in Thread
         /\ [a EXCEPT !.mapped = FALSE, !.list = l] \in Thread
         /\ [a EXCEPT !.exempt = TRUE, !.list = l] \in Thread
         /\ [NewObject EXCEPT !.list = l, !.exempt = e, !.mapped = m] \in Thread
         /\ Pooled \in Thread
BY DEF Thread, Lists, NewObject, Pooled

LEMMA CallStep == ASSUME IInv, NEW t \in Threads, Call(t), spc # "unloaded" PROVE IInv'
<1> USE DEF IInv, Call, Goes, StaysKnown, probeVars, Has, GaveBack
<1>1. Types'
  BY CallsAssumption, Popped DEF Types
<1>2. StackNames(t)'
  BY DEF Types, StackNames, ListOf, Bypassed, Unloading, Phases
<1>3. t \notin slipped => Judged(t)' /\ Mapped(t)' /\ (pc'[t] \in {"build", "insert"} => spc = "run")
  BY DEF Types, Judged, Mapped, ListOf, Bypassed, Unloading, Phases, StackNames
<1> QED
  BY <1>1, <1>2, <1>3, QuietStep DEF Types

LEMMA EnterProcedureStep == ASSUME IInv, NEW t \in Threads, EnterProcedure(t), spc # "unloaded" PROVE IInv'
<1> USE DEF IInv, EnterProcedure, Goes, StaysKnown, probeVars, Has, GaveBack
<1>1. Types'
  BY CallsAssumption, Popped DEF Types
<1>2. StackNames(t)'
  BY DEF Types, StackNames, ListOf, Bypassed, Unloading, Phases
<1>3. t \notin slipped => Judged(t)' /\ Mapped(t)' /\ (pc'[t] \in {"build", "insert"} => spc = "run")
  BY DEF Types, Judged, Mapped, ListOf, Bypassed, Unloading, Phases, StackNames
<1> QED
  BY <1>1, <1>2, <1>3, QuietStep DEF Types

LEMMA ExemptCallStep == ASSUME IInv, NEW t \in Threads, ExemptCall(t), spc # "unloaded" PROVE IInv'
<1> USE DEF IInv, ExemptCall, Goes, StaysKnown, probeVars, Has, GaveBack
<1>1. Types'
  BY CallsAssumption, Popped DEF Types
<1>2. StackNames(t)'
  BY DEF Types, StackNames, ListOf, Bypassed, Unloading, Phases
<1>3. t \notin slipped => Judged(t)' /\ Mapped(t)' /\ (pc'[t] \in {"build", "insert"} => spc = "run")
  BY DEF Types, Judged, Mapped, ListOf, Bypassed, Unloading, Phases, StackNames
<1> QED
  BY <1>1, <1>2, <1>3, QuietStep DEF Types

LEMMA FindThreadStep == ASSUME IInv, NEW t \in Threads, FindThread(t), spc # "unloaded" PROVE IInv'
<1> USE DEF IInv, FindThread, Goes, StaysKnown, probeVars, Has, GaveBack
<1>1. Types'
  BY CallsAssumption, Popped DEF Types
<1>2. StackNames(t)'
  BY DEF Types, StackNames, ListOf, Bypassed, Unloading, Phases
<1>a. /\ spc = "run" /\ pc[t] = "check" /\ pc'[t] \in {"known", "build"}
      /\ UNCHANGED <<object, mine, frames, slipped>>
  BY DEF Types, Bypassed, Unloading
<1>b. Has(t) => mine[t] \in Objects /\ ListOf(t) \notin {"complete", "closed"}
  BY <1>a DEF Types, Phases, ListOf
<1>3. t \notin slipped => Judged(t)' /\ Mapped(t)' /\ (pc'[t] \in {"build", "insert"} => spc = "run")
  BY <1>a, <1>b DEF Judged, Mapped, ListOf
<1> QED
  BY <1>1, <1>2, <1>3, QuietStep DEF Types

LEMMA LeaveTrapStep == ASSUME IInv, NEW t \in Threads, LeaveTrap(t), spc # "unloaded" PROVE IInv'
<1> USE DEF IInv, LeaveTrap, Goes, StaysKnown, probeVars, Has, GaveBack
<1>1. Types'
  BY CallsAssumption, Popped DEF Types
<1>2. StackNames(t)'
  BY DEF Types, StackNames, ListOf, Bypassed, Unloading, Phases
<1>3. t \notin slipped => Judged(t)' /\ Mapped(t)' /\ (pc'[t] \in {"build", "insert"} => spc = "run")
  BY DEF Types, Judged, Mapped, ListOf, Bypassed, Unloading, Phases, StackNames
<1> QED
  BY <1>1, <1>2, <1>3, QuietStep DEF Types

LEMMA SetCookieStep == ASSUME IInv, NEW t \in Threads, SetCookie(t), spc # "unloaded" PROVE IInv'
<1> USE DEF IInv, SetCookie, Goes, StaysKnown, probeVars, Has, GaveBack
<1>1. Types'
  BY CallsAssumption, Popped DEF Types
<1>2. StackNames(t)'
  BY DEF Types, StackNames, ListOf, Bypassed, Unloading, Phases
<1>3. t \notin slipped => Judged(t)' /\ Mapped(t)' /\ (pc'[t] \in {"build", "insert"} => spc = "run")
  BY DEF Types, Judged, Mapped, ListOf, Bypassed, Unloading, Phases, StackNames
<1> QED
  BY <1>1, <1>2, <1>3, QuietStep DEF Types

LEMMA UnwindStep == ASSUME IInv, NEW t \in Threads, Unwind(t), spc # "unloaded" PROVE IInv'
<1> USE DEF IInv, Unwind, Goes, StaysKnown, probeVars, Has, GaveBack
<1>1. Types'
  BY CallsAssumption, Popped DEF Types
<1>2. StackNames(t)'
  BY DEF Types, StackNames, ListOf, Bypassed, Unloading, Phases
<1>3. t \notin slipped => Judged(t)' /\ Mapped(t)' /\ (pc'[t] \in {"build", "insert"} => spc = "run")
  BY DEF Types, Judged, Mapped, ListOf, Bypassed, Unloading, Phases, StackNames
<1> QED
  BY <1>1, <1>2, <1>3, QuietStep DEF Types

LEMMA BeginStep == ASSUME IInv, NEW t \in Threads, Begin(t), spc # "unloaded" PROVE IInv'
<1> USE DEF IInv, Begin, Goes, StaysKnown, probeVars, Has, GaveBack
<1>1. Types'
  BY CallsAssumption, Popped DEF Types
<1>2. StackNames(t)'
  BY DEF Types, StackNames, ListOf, Bypassed, Unloading, Phases
<1>3. t \notin slipped => Judged(t)' /\ Mapped(t)' /\ (pc'[t] \in {"build", "insert"} => spc = "run")
  BY DEF Types, Judged, Mapped, ListOf, Bypassed, Unloading, Phases, StackNames
<1> QED
  BY <1>1, <1>2, <1>3, QuietStep DEF Types

LEMMA StoreThreadStep == ASSUME IInv, NEW t \in Threads, StoreThread(t), spc # "unloaded" PROVE IInv'
<1> USE DEF IInv, StoreThread, Goes, StaysKnown, probeVars, Has, GaveBack
<1>1. Types'
  BY CallsAssumption, Popped DEF Types
<1>2. StackNames(t)'
  BY DEF Types, StackNames, ListOf, Bypassed, Unloading, Phases
<1>3. t \notin slipped => Judged(t)' /\ Mapped(t)' /\ (pc'[t] \in {"build", "insert"} => spc = "run")
  BY DEF Types, Judged, Mapped, ListOf, Bypassed, Unloading, Phases, StackNames
<1> QED
  BY <1>1, <1>2, <1>3, QuietStep DEF Types

\* A step that changes the object of its thread, or one that has no thread yet.
LEMMA ObjectStep ==
  ASSUME IInv, Types', NEW t \in Threads, NEW o \in Objects, spc # "unloaded", spc' = spc, Own(t)',
         slipped \subseteq slipped', \A u \in Threads \ {t} : Has(u) => mine[u] # o,
         \A p \in Objects \ {o} : object'[p] = object[p],
         \A u \in Threads \ {t} :
           pc'[u] = pc[u] /\ frames'[u] = frames[u] /\ tls'[u] = tls[u] /\ mine'[u] = mine[u],
         object'[o].list \in Judgements => object'[o].list = object[o].list
  PROVE  IInv'
<1>1. \A u \in Threads \ {t} : Same(u)
  BY DEF Same, Has, IInv, Types
<1>2. \A p \in Objects : object'[p].list \in Judgements => object'[p].list = object[p].list
  OBVIOUS
<1> QED
  BY <1>1, <1>2, ThreadStep

LEMMA Alone ==
  ASSUME IInv, NEW t \in Threads, Has(t)
  PROVE  /\ mine[t] \in Objects /\ object[mine[t]] \in Thread
         /\ \A u \in Threads \ {t} : Has(u) => mine[u] # mine[t]
BY DEF IInv, Types, Owned, Has

LEMMA Exempted ==
  ASSUME NEW a \in Thread, NEW e \in BOOLEAN, NEW b, b = [a EXCEPT !.exempt = e]
  PROVE  b.list = a.list /\ b.gone = a.gone /\ b.mapped = a.mapped /\ b.exempt = e
BY DEF Thread

LEMMA Moved ==
  ASSUME NEW a \in Thread, NEW l \in Lists, NEW b, b = [a EXCEPT !.list = l]
  PROVE  b.list = l /\ b.gone = a.gone /\ b.mapped = a.mapped /\ b.exempt = a.exempt
BY DEF Thread

LEMMA Exempts ==
  ASSUME IInv, NEW o \in Objects, NEW e \in BOOLEAN, object' = [object EXCEPT ![o].exempt = e]
  PROVE  /\ object' \in [Objects -> Thread] /\ \A p \in Objects \ {o} : object'[p] = object[p]
         /\ object'[o].list = object[o].list /\ object'[o].gone = object[o].gone
         /\ object'[o].mapped = object[o].mapped /\ object'[o].exempt = e
<1>1. object \in [Objects -> Thread] /\ object[o] \in Thread
  BY DEF IInv, Types
<1>2. object'[o] = [object[o] EXCEPT !.exempt = e] /\ \A p \in Objects \ {o} : object'[p] = object[p]
  BY <1>1
<1>3. object' \in [Objects -> Thread]
  <2>1. [object[o] EXCEPT !.exempt = e] \in Thread
    BY <1>1, Updated DEF Lists
  <2> QED
    BY <1>1, <2>1
<1> QED
  BY <1>1, <1>2, <1>3, Exempted

LEMMA Moves ==
  ASSUME IInv, NEW o \in Objects, NEW l \in Lists, object' = [object EXCEPT ![o].list = l]
  PROVE  /\ object' \in [Objects -> Thread] /\ \A p \in Objects \ {o} : object'[p] = object[p]
         /\ object'[o].list = l /\ object'[o].gone = object[o].gone
         /\ object'[o].mapped = object[o].mapped /\ object'[o].exempt = object[o].exempt
<1>1. object \in [Objects -> Thread] /\ object[o] \in Thread
  BY DEF IInv, Types
<1>2. object'[o] = [object[o] EXCEPT !.list = l] /\ \A p \in Objects \ {o} : object'[p] = object[p]
  BY <1>1
<1>3. object' \in [Objects -> Thread]
  <2>1. [object[o] EXCEPT !.list = l] \in Thread
    BY <1>1 DEF Thread
  <2> QED
    BY <1>1, <2>1
<1> QED
  BY <1>1, <1>2, <1>3, Moved

LEMMA CountReferenceStep == ASSUME IInv, NEW t \in Threads, CountReference(t), spc # "unloaded" PROVE IInv'
<1> DEFINE o == mine[t]
<1>1. o # 0 /\ o \in Objects /\ Has(t) /\ \A u \in Threads \ {t} : Has(u) => mine[u] # o
  <2>1. mine[t] # 0 /\ Has(t)
    BY DEF IInv, StackNames, CountReference, Goes, Has, GaveBack
  <2> QED
    BY <2>1, Alone
<1>2. PICK e \in BOOLEAN : object' = [object EXCEPT ![o].exempt = e] /\ e = TRUE
  BY DEF CountReference, ListOf
<1>3. /\ object' \in [Objects -> Thread] /\ \A p \in Objects \ {o} : object'[p] = object[p]
      /\ object'[o].list = object[o].list /\ object'[o].gone = object[o].gone
      /\ object'[o].mapped = object[o].mapped /\ object'[o].exempt = e
  BY <1>1, <1>2, Exempts
<1>4. /\ slipped' = slipped /\ spc' = spc /\ mine' = mine /\ tls' = tls /\ \A u \in Threads \ {t} :
           pc'[u] = pc[u] /\ frames'[u] = frames[u] /\ tls'[u] = tls[u] /\ mine'[u] = mine[u]
  BY DEF CountReference, Goes, StaysKnown, IInv, Types
<1>b. Has(t)' /\ \A u \in Threads \ {t} : Has(u)' <=> Has(u)
  BY <1>1, <1>4 DEF CountReference, Goes, IInv, Types, Has, GaveBack
<1>5. Types'
  BY <1>3, Popped, CallsAssumption DEF IInv, Types, CountReference, Goes, StaysKnown, probeVars
<1>6. StackNames(t)'
  BY <1>1, <1>b, <1>3, <1>4 DEF CountReference, Goes, IInv, Types, StackNames, ListOf
<1>7. t \notin slipped => Judged(t)' /\ Mapped(t)'
  BY <1>1, <1>b, <1>2, <1>3, <1>4 DEF CountReference, Goes, IInv, Types, Judged, Mapped, ListOf
<1>8. Own(t)'
  <2>1. pc'[t] \notin {"build", "insert"}
    BY DEF CountReference, Goes, IInv, Types
  <2> QED
    BY <1>1, <1>b, <1>3, <1>4, <1>6, <1>7, <2>1 DEF IInv, Own, Owned, Phases, ListOf
<1> QED
  BY <1>1, <1>3, <1>4, <1>5, <1>8, ObjectStep

LEMMA PushFrameStep == ASSUME IInv, NEW t \in Threads, PushFrame(t), spc # "unloaded" PROVE IInv'
<1> DEFINE o == mine[t]
<1>1. o # 0 /\ o \in Objects /\ Has(t) /\ \A u \in Threads \ {t} : Has(u) => mine[u] # o
  <2>1. mine[t] # 0 /\ Has(t)
    BY DEF IInv, StackNames, PushFrame, Goes, Has, GaveBack
  <2> QED
    BY <2>1, Alone
<1>2. PICK e \in BOOLEAN : object' = [object EXCEPT ![o].exempt = e] /\ e = FALSE
  BY DEF PushFrame, ListOf
<1>3. /\ object' \in [Objects -> Thread] /\ \A p \in Objects \ {o} : object'[p] = object[p]
      /\ object'[o].list = object[o].list /\ object'[o].gone = object[o].gone
      /\ object'[o].mapped = object[o].mapped /\ object'[o].exempt = e
  BY <1>1, <1>2, Exempts
<1>4. /\ slipped' = slipped /\ spc' = spc /\ mine' = mine /\ tls' = tls /\ \A u \in Threads \ {t} :
           pc'[u] = pc[u] /\ frames'[u] = frames[u] /\ tls'[u] = tls[u] /\ mine'[u] = mine[u]
  BY DEF PushFrame, Goes, StaysKnown, IInv, Types
<1>b. Has(t)' /\ \A u \in Threads \ {t} : Has(u)' <=> Has(u)
  BY <1>1, <1>4 DEF PushFrame, Goes, IInv, Types, Has, GaveBack
<1>5. Types'
  BY <1>3, Popped, CallsAssumption DEF IInv, Types, PushFrame, Goes, StaysKnown, probeVars
<1>6. StackNames(t)'
  BY <1>1, <1>b, <1>3, <1>4 DEF PushFrame, Goes, IInv, Types, StackNames, ListOf
<1>7. t \notin slipped => Judged(t)' /\ Mapped(t)'
  BY <1>1, <1>b, <1>2, <1>3, <1>4 DEF PushFrame, Goes, IInv, Types, Judged, Mapped, ListOf
<1>8. Own(t)'
  <2>1. pc'[t] \notin {"build", "insert"}
    BY DEF PushFrame, Goes, IInv, Types
  <2> QED
    BY <1>1, <1>b, <1>3, <1>4, <1>6, <1>7, <2>1 DEF IInv, Own, Owned, Phases, ListOf
<1> QED
  BY <1>1, <1>3, <1>4, <1>5, <1>8, ObjectStep

LEMMA PopFrameStep == ASSUME IInv, NEW t \in Threads, PopFrame(t), spc # "unloaded" PROVE IInv'
<1> DEFINE o == mine[t]
<1>1. o # 0 /\ o \in Objects /\ Has(t) /\ \A u \in Threads \ {t} : Has(u) => mine[u] # o
  <2>1. mine[t] # 0 /\ Has(t)
    BY DEF IInv, StackNames, PopFrame, Goes, Has, GaveBack
  <2> QED
    BY <2>1, Alone
<1>2. PICK e \in BOOLEAN : object' = [object EXCEPT ![o].exempt = e] /\ e = TRUE
  BY DEF PopFrame, ListOf
<1>3. /\ object' \in [Objects -> Thread] /\ \A p \in Objects \ {o} : object'[p] = object[p]
      /\ object'[o].list = object[o].list /\ object'[o].gone = object[o].gone
      /\ object'[o].mapped = object[o].mapped /\ object'[o].exempt = e
  BY <1>1, <1>2, Exempts
<1>4. /\ slipped' = slipped /\ spc' = spc /\ mine' = mine /\ tls' = tls /\ \A u \in Threads \ {t} :
           pc'[u] = pc[u] /\ frames'[u] = frames[u] /\ tls'[u] = tls[u] /\ mine'[u] = mine[u]
  BY DEF PopFrame, Goes, StaysKnown, IInv, Types
<1>b. Has(t)' /\ \A u \in Threads \ {t} : Has(u)' <=> Has(u)
  BY <1>1, <1>4 DEF PopFrame, Goes, IInv, Types, Has, GaveBack
<1>5. Types'
  BY <1>3, Popped, CallsAssumption DEF IInv, Types, PopFrame, Goes, StaysKnown, probeVars
<1>6. StackNames(t)'
  BY <1>1, <1>b, <1>3, <1>4 DEF PopFrame, Goes, IInv, Types, StackNames, ListOf
<1>7. t \notin slipped => Judged(t)' /\ Mapped(t)'
  BY <1>1, <1>b, <1>2, <1>3, <1>4 DEF PopFrame, Goes, IInv, Types, Judged, Mapped, ListOf
<1>8. Own(t)'
  <2>1. pc'[t] \notin {"build", "insert"}
    BY DEF PopFrame, Goes, IInv, Types
  <2> QED
    BY <1>1, <1>b, <1>3, <1>4, <1>6, <1>7, <2>1 DEF IInv, Own, Owned, Phases, ListOf
<1> QED
  BY <1>1, <1>3, <1>4, <1>5, <1>8, ObjectStep

LEMMA WriteRecordStep == ASSUME IInv, NEW t \in Threads, WriteRecord(t), spc # "unloaded" PROVE IInv'
<1> DEFINE o == mine[t]
<1>1. o # 0 /\ o \in Objects /\ Has(t) /\ \A u \in Threads \ {t} : Has(u) => mine[u] # o
  <2>1. mine[t] # 0 /\ Has(t)
    BY DEF IInv, StackNames, WriteRecord, Goes, Has, GaveBack
  <2> QED
    BY <2>1, Alone
<1>2. PICK e \in BOOLEAN : object' = [object EXCEPT ![o].exempt = e] /\ (e = FALSE => ListOf(t) # "rundown")
  BY DEF WriteRecord, ListOf
<1>3. /\ object' \in [Objects -> Thread] /\ \A p \in Objects \ {o} : object'[p] = object[p]
      /\ object'[o].list = object[o].list /\ object'[o].gone = object[o].gone
      /\ object'[o].mapped = object[o].mapped /\ object'[o].exempt = e
  BY <1>1, <1>2, Exempts
<1>4. /\ slipped' = slipped /\ spc' = spc /\ mine' = mine /\ tls' = tls /\ \A u \in Threads \ {t} :
           pc'[u] = pc[u] /\ frames'[u] = frames[u] /\ tls'[u] = tls[u] /\ mine'[u] = mine[u]
  BY DEF WriteRecord, Goes, StaysKnown, IInv, Types
<1>b. Has(t)' /\ \A u \in Threads \ {t} : Has(u)' <=> Has(u)
  BY <1>1, <1>4 DEF WriteRecord, Goes, IInv, Types, Has, GaveBack
<1>5. Types'
  BY <1>3, Popped, CallsAssumption DEF IInv, Types, WriteRecord, Goes, StaysKnown, probeVars
<1>6. StackNames(t)'
  BY <1>1, <1>b, <1>3, <1>4 DEF WriteRecord, Goes, IInv, Types, StackNames, ListOf
<1>7. t \notin slipped => Judged(t)' /\ Mapped(t)'
  BY <1>1, <1>b, <1>2, <1>3, <1>4 DEF WriteRecord, Goes, IInv, Types, Judged, Mapped, ListOf
<1>8. Own(t)'
  <2>1. pc'[t] \notin {"build", "insert"}
    BY DEF WriteRecord, Goes, IInv, Types
  <2> QED
    BY <1>1, <1>b, <1>3, <1>4, <1>6, <1>7, <2>1 DEF IInv, Own, Owned, Phases, ListOf
<1> QED
  BY <1>1, <1>3, <1>4, <1>5, <1>8, ObjectStep

LEMMA AllocateThreadStep == ASSUME IInv, NEW t \in Threads, AllocateThread(t), spc # "unloaded" PROVE IInv'
<1>1. mine[t] = 0
  BY DEF IInv, StackNames, AllocateThread, Goes
<1> DEFINE New(failed) == [NewObject EXCEPT !.list = "none", !.exempt = failed, !.mapped = ~failed]
           Takes(failed, o) == /\ Free(o) /\ mine' = [mine EXCEPT ![t] = o]
                               /\ object' = [object EXCEPT ![o] = New(failed)]
<1>a. \E failed \in BOOLEAN : \E o \in Objects : Takes(failed, o)
  <2> HIDE DEF New
  <2>1. \E failed \in BOOLEAN : \E o \in Objects :
          Free(o) /\ object' = [object EXCEPT ![o] = New(failed)] /\ mine' = [mine EXCEPT ![t] = o]
    BY Zenon DEF AllocateThread, New
  <2> QED
    BY <2>1
<1> HIDE DEF Takes, New
<1>2. PICK failed \in BOOLEAN, o \in Objects : Takes(failed, o)
  BY <1>a
<1> USE DEF Takes, New
<1> DEFINE new == [NewObject EXCEPT !.list = "none", !.exempt = failed, !.mapped = ~failed]
<1>3. new \in Thread
  <2>1. CASE failed = TRUE
    BY <2>1 DEF Thread, Lists, NewObject
  <2>2. CASE failed = FALSE
    BY <2>2 DEF Thread, Lists, NewObject
  <2> QED
    BY <2>1, <2>2
<1>4. new.list = "none" /\ new.gone = FALSE /\ (new.exempt \/ new.mapped)
  BY DEF NewObject
<1>5. object' \in [Objects -> Thread] /\ object'[o] = new /\ \A p \in Objects \ {o} : object'[p] = object[p]
  <2>1. object' = [object EXCEPT ![o] = new]
    BY <1>2
  <2> HIDE DEF new
  <2> QED
    BY <1>3, <2>1 DEF IInv, Types
<1> HIDE DEF new
<1>6. \A u \in Threads \ {t} : Has(u) => mine[u] # o
  <2>1. o # 0 /\ object[o].list \in {"unused", "pool"}
    BY <1>2 DEF Objects, Free
  <2> QED
    BY <2>1 DEF IInv, Owned, ListOf
<1>7. /\ slipped' = slipped /\ spc' = spc /\ mine'[t] = o /\ o # 0 /\ pc'[t] = "insert"
      /\ tls'[t] = "null" /\ frames' = frames /\ frames[t] = << >> /\ pc[t] = "build"
      /\ \A u \in Threads \ {t} :
           pc'[u] = pc[u] /\ frames'[u] = frames[u] /\ tls'[u] = tls[u] /\ mine'[u] = mine[u]
  BY <1>2 DEF AllocateThread, Goes, StaysKnown, IInv, Types, Objects, StackNames
<1>8. Types'
  BY <1>2, <1>5, CallsAssumption DEF IInv, Types, AllocateThread, Goes, StaysKnown, probeVars
<1>9. StackNames(t)'
  BY <1>4, <1>5, <1>7 DEF StackNames, ListOf
<1>10. t \notin slipped => Judged(t)' /\ Mapped(t)'
  BY <1>4, <1>5, <1>7 DEF Judged, Mapped, ListOf
<1>11. Own(t)'
  <2>1. t \notin slipped => spc \notin {"wait", "close", "quiesce", "again", "unloaded"}
    BY <1>7 DEF IInv, Phases
  <2>2. \A u \in Threads \ {t} : Has(u)' => Has(u)
    BY <1>7 DEF Has, GaveBack
  <2> QED
    BY <1>4, <1>5, <1>6, <1>7, <1>9, <1>10, <2>1, <2>2 DEF Own, ListOf
<1> QED
  BY <1>4, <1>5, <1>6, <1>7, <1>8, <1>11, ObjectStep DEF Judgements

LEMMA InsertThreadStep == ASSUME IInv, NEW t \in Threads, InsertThread(t), spc # "unloaded" PROVE IInv'
<1> DEFINE o == mine[t]
<1>1. o # 0 /\ o \in Objects /\ Has(t) /\ \A u \in Threads \ {t} : Has(u) => mine[u] # o
  <2>1. Has(t)
    BY DEF IInv, StackNames, InsertThread, Goes, Has, GaveBack
  <2> QED
    BY <2>1, Alone DEF Has
<1>2. /\ object' \in [Objects -> Thread] /\ \A p \in Objects \ {o} : object'[p] = object[p]
      /\ object'[o].list = "active" /\ object'[o].gone = object[o].gone
      /\ object'[o].mapped = object[o].mapped /\ object'[o].exempt = object[o].exempt
  BY <1>1, Moves DEF InsertThread, Lists
<1>3. /\ slipped' = slipped /\ spc' = spc /\ mine' = mine /\ tls' = tls /\ frames' = frames
      /\ pc[t] = "insert" /\ pc'[t] = "store" /\ \A u \in Threads \ {t} : pc'[u] = pc[u]
  BY DEF InsertThread, Goes, StaysKnown, IInv, Types
<1>4. Has(t)' /\ \A u \in Threads \ {t} : Has(u)' <=> Has(u)
  BY <1>1, <1>3 DEF Has, GaveBack
<1>5. Types'
  BY <1>2, CallsAssumption DEF IInv, Types, InsertThread, Goes, StaysKnown, probeVars
<1>6. StackNames(t)'
  BY <1>1, <1>2, <1>3 DEF IInv, StackNames, ListOf
<1>7. t \notin slipped => Judged(t)' /\ Mapped(t)'
  BY <1>1, <1>2, <1>3, <1>4 DEF IInv, Judged, Mapped, ListOf
<1>8. Own(t)'
  <2>1. t \notin slipped => spc \notin {"wait", "close", "quiesce", "again", "unloaded"}
    BY <1>3 DEF IInv, Phases
  <2> QED
    BY <1>1, <1>2, <1>3, <1>4, <1>6, <1>7, <2>1 DEF IInv, Own, Owned, ListOf
<1> QED
  BY <1>1, <1>2, <1>3, <1>5, <1>8, ObjectStep DEF Judgements

LEMMA RemoveActiveStep == ASSUME IInv, NEW t \in Threads, RemoveActive(t), spc # "unloaded" PROVE IInv'
<1> DEFINE o == mine[t]
<1>1. /\ o # 0 /\ o \in Objects /\ object[o] \in Thread /\ Has(t)
      /\ \A u \in Threads \ {t} : Has(u) => mine[u] # o
  <2>1. Has(t)
    BY DEF IInv, StackNames, RemoveActive, Goes, Has, GaveBack
  <2> QED
    BY <2>1, Alone DEF Has
<1> DEFINE new == [object[o] EXCEPT !.exempt = TRUE, !.list = "none"]
<1>2. new \in Thread
  BY <1>1, Updated DEF Lists
<1>3. new.list = "none" /\ new.gone = object[o].gone /\ new.mapped = object[o].mapped /\ new.exempt
  BY <1>1 DEF Thread
<1>4. object' = [object EXCEPT ![o] = new]
  BY <1>1 DEF RemoveActive, IInv, Types
<1> HIDE DEF new
<1>5. object' \in [Objects -> Thread] /\ object'[o] = new /\ \A p \in Objects \ {o} : object'[p] = object[p]
  BY <1>1, <1>2, <1>4 DEF IInv, Types
<1>6. /\ slipped \subseteq slipped' /\ (ListOf(t) # "active" => t \in slipped') /\ spc' = spc
      /\ mine' = mine /\ tls' = tls /\ frames' = frames
      /\ pc'[t] = "detach" /\ pc[t] = "app" /\ tls[t] = "object" /\ \A u \in Threads \ {t} : pc'[u] = pc[u]
  BY DEF RemoveActive, Goes, IInv, Types, ListOf
<1>b. Has(t)' /\ \A u \in Threads \ {t} : Has(u)' <=> Has(u)
  BY <1>1, <1>6 DEF Has, GaveBack
<1>7. Types'
  BY <1>5, CallsAssumption DEF IInv, Types, RemoveActive, Goes, probeVars
<1>8. StackNames(t)'
  BY <1>1, <1>3, <1>5, <1>6 DEF StackNames, ListOf
<1>9. t \notin slipped' => Judged(t)' /\ Mapped(t)'
  BY <1>1, <1>b, <1>3, <1>5, <1>6 DEF IInv, Judged, Mapped, ListOf
<1>10. Own(t)'
  BY <1>1, <1>b, <1>3, <1>5, <1>6, <1>8, <1>9 DEF IInv, Own, Owned, ListOf
<1> QED
  BY <1>1, <1>3, <1>5, <1>6, <1>7, <1>10, ObjectStep DEF Judgements

LEMMA QueueRundownStep == ASSUME IInv, NEW t \in Threads, QueueRundown(t), spc # "unloaded" PROVE IInv'
<1> DEFINE o == mine[t]
<1>1. /\ o # 0 /\ o \in Objects /\ object[o] \in Thread /\ Has(t)
      /\ \A u \in Threads \ {t} : Has(u) => mine[u] # o
  <2>1. Has(t)
    BY DEF IInv, StackNames, QueueRundown, Goes, Has, GaveBack
  <2> QED
    BY <2>1, Alone DEF Has
<1>2. /\ slipped' = slipped /\ spc' = spc /\ frames' = frames /\ mine' = mine /\ tls' = tls
      /\ tls[t] = "object" /\ pc'[t] = "cookie" /\ pc[t] = "detach" /\ \A u \in Threads \ {t} : pc'[u] = pc[u]
  BY DEF QueueRundown, Goes, StaysKnown, IInv, Types, StackNames
<1>3. \A u \in Threads \ {t} : Has(u)' <=> Has(u)
  BY <1>2 DEF Has, GaveBack
<1>4. ListOf(t) = "none"
  BY <1>2 DEF IInv, StackNames
<1>5. CASE frames[t] = << >>
  <2>1. object' = [object EXCEPT ![o] = Pooled]
    BY <1>5 DEF QueueRundown
  <2>2. Pooled \in Thread /\ Pooled.list = "pool"
    BY DEF Thread, Lists, Pooled, NewObject
  <2>3. /\ object' \in [Objects -> Thread] /\ object'[o] = Pooled
        /\ \A p \in Objects \ {o} : object'[p] = object[p]
    BY <1>1, <2>1, <2>2 DEF IInv, Types
  <2>4. Types'
    BY <2>3, CallsAssumption DEF IInv, Types, QueueRundown, Goes, StaysKnown, probeVars
  <2>5. ~Has(t)'
    BY <1>2, <1>5 DEF Has, GaveBack
  <2>6. StackNames(t)' /\ Judged(t)' /\ Mapped(t)'
    BY <1>1, <1>2, <1>5, <2>5 DEF StackNames, Judged, Mapped
  <2>7. Own(t)'
    BY <1>2, <2>5, <2>6 DEF Own
  <2> QED
    BY <1>1, <1>2, <2>2, <2>3, <2>4, <2>7, ObjectStep DEF Judgements
<1>6. CASE frames[t] # << >>
  <2>1. object' = [object EXCEPT ![o].list = "rundown"]
    BY <1>6 DEF QueueRundown
  <2>2. /\ object' \in [Objects -> Thread] /\ \A p \in Objects \ {o} : object'[p] = object[p]
        /\ object'[o].list = "rundown" /\ object'[o].gone = object[o].gone
        /\ object'[o].mapped = object[o].mapped /\ object'[o].exempt = object[o].exempt
    BY <1>1, <2>1, Moves DEF Lists
  <2>3. Types'
    BY <2>2, CallsAssumption DEF IInv, Types, QueueRundown, Goes, StaysKnown, probeVars
  <2>4. StackNames(t)'
    BY <1>1, <1>2, <2>2 DEF StackNames, ListOf
  <2>5. t \notin slipped => Judged(t)' /\ Mapped(t)'
    BY <1>1, <1>2, <1>4, <2>2 DEF IInv, Judged, Mapped, ListOf
  <2>6. Own(t)'
    BY <1>1, <1>2, <1>3, <2>2, <2>4, <2>5 DEF IInv, Own, Owned, ListOf
  <2> QED
    BY <1>1, <1>2, <2>2, <2>3, <2>6, ObjectStep DEF Judgements
<1> QED
  BY <1>5, <1>6

LEMMA SetExemptionCookieStep ==
  ASSUME IInv, NEW t \in Threads, SetExemptionCookie(t), spc # "unloaded" PROVE IInv'
<1>1. /\ slipped' = slipped /\ spc' = spc /\ frames' = frames /\ object' = object /\ tls'[t] = "cookie"
      /\ pc'[t] = "app" /\ pc[t] = "cookie" /\ tls[t] = "object" /\ mine[t] # 0
      /\ mine'[t] = IF frames[t] = << >> THEN 0 ELSE mine[t]
      /\ \A u \in Threads \ {t} : pc'[u] = pc[u] /\ tls'[u] = tls[u] /\ mine'[u] = mine[u]
  BY DEF SetExemptionCookie, Goes, StaysKnown, IInv, Types, StackNames
<1>2. Types'
  BY CallsAssumption DEF IInv, Types, SetExemptionCookie, Goes, StaysKnown, probeVars
<1>3. \A u \in Threads \ {t} : Same(u)
  BY <1>1 DEF Same
<1>4. StackNames(t)'
  BY <1>1 DEF IInv, StackNames, ListOf
<1>5. /\ Has(t)' => Has(t) /\ mine'[t] = mine[t] /\ ListOf(t) = "rundown"
      /\ \A u \in Threads \ {t} : Has(u)' <=> Has(u)
  BY <1>1 DEF IInv, StackNames, Has, GaveBack, ListOf
<1>6. t \notin slipped => Judged(t)' /\ Mapped(t)'
  BY <1>1, <1>5 DEF IInv, Judged, Mapped, ListOf
<1>7. Own(t)'
  BY <1>1, <1>4, <1>5, <1>6 DEF IInv, Own, Owned, ListOf
<1> QED
  BY <1>1, <1>2, <1>3, <1>7, ThreadStep

LEMMA EndsStep == ASSUME IInv, NEW t \in Threads, Ends(t), spc # "unloaded" PROVE IInv'
<1>1. /\ slipped' = slipped /\ spc' = spc /\ frames'[t] = << >> /\ tls'[t] = "none" /\ pc'[t] = "gone"
      /\ mine'[t] = 0
      /\ \A u \in Threads \ {t} :
           pc'[u] = pc[u] /\ frames'[u] = frames[u] /\ tls'[u] = tls[u] /\ mine'[u] = mine[u]
  BY DEF Ends, Goes, StaysKnown, IInv, Types
<1>2. Own(t)'
  BY <1>1 DEF Own, StackNames, Judged, Mapped, Has
<1>3. object' \in [Objects -> Thread] => Types'
  BY CallsAssumption DEF IInv, Types, Ends, Goes, StaysKnown, probeVars
<1>4. CASE mine[t] = 0
  <2>1. object' = object
    BY <1>4 DEF Ends
  <2>2. \A u \in Threads \ {t} : Same(u)
    BY <1>1, <2>1 DEF Same
  <2>3. Types'
    BY <1>3, <2>1 DEF IInv, Types
  <2> QED
    BY <1>1, <1>2, <2>1, <2>2, <2>3, ThreadStep
<1>5. CASE mine[t] # 0
  <2> DEFINE o == mine[t]
  <2>1. /\ o # 0 /\ o \in Objects /\ object[o] \in Thread
        /\ \A u \in Threads \ {t} : Has(u) => mine[u] # o
    <3>1. Has(t)
      BY <1>5 DEF Has, GaveBack, Ends, Goes
    <3> QED
      BY <1>5, <3>1, Alone
  <2>2. object' = [object EXCEPT ![o] = [object[o] EXCEPT !.gone = TRUE]]
    BY <1>5 DEF Ends
  <2>3. [object[o] EXCEPT !.gone = TRUE] \in Thread /\ [object[o] EXCEPT !.gone = TRUE].list = object[o].list
    BY <2>1 DEF Thread
  <2>4. /\ object' \in [Objects -> Thread] /\ object'[o].list = object[o].list
        /\ \A p \in Objects \ {o} : object'[p] = object[p]
    BY <2>1, <2>2, <2>3 DEF IInv, Types
  <2> QED
    BY <1>1, <1>2, <1>3, <2>1, <2>4, ObjectStep
<1> QED
  BY <1>4, <1>5

-----------------------------------------------------------------------------
(* Steps of the runtime's own threads.                                      *)
LEMMA PlainStep ==
  ASSUME IInv, UNCHANGED <<object, pc, at, frames, tls, mine>>, patched' \in 0 .. MaxProbes,
         slipped \subseteq slipped', Phases'
  PROVE  IInv'
<1>1. \A u \in Threads : Same(u)
  BY DEF Same
<1>2. Types' /\ Owned'
  BY DEF IInv, Types, Owned, ListOf, Has, GaveBack
<1>3. \A u \in Threads : StackNames(u)'
  BY <1>1, Kept DEF IInv
<1>4. ASSUME NEW u \in Threads \ slipped' PROVE Judged(u)' /\ Mapped(u)'
  <2>1. u \in Threads /\ u \notin slipped
    OBVIOUS
  <2>2. Judged(u) /\ Mapped(u)
    BY <2>1 DEF IInv
  <2> QED
    BY <1>1, <2>1, <2>2, Kept
<1> QED
  BY <1>2, <1>3, <1>4 DEF IInv

\* The steps that neither end a phase nor leave one whose condition must hold.
LEMMA SamePhaseStep ==
  ASSUME IInv, Snapshot \/ Register \/ Unregister \/ ScheduleStop \/ SuspendBlocks
               \/ UnregisterProbes \/ EndClose \/ LookAgain \/ UnloadBlind
  PROVE  IInv'
<1>1. /\ UNCHANGED <<object, pc, at, frames, tls, mine>> /\ patched' \in 0 .. MaxProbes
      /\ slipped \subseteq slipped'
  BY CallsAssumption DEF Snapshot, Register, Unregister, Unpatch, ScheduleStop, SuspendBlocks,
     UnregisterProbes, EndClose, LookAgain, UnloadBlind, probeVars, threadVars, IInv, Types, Probes
<1>2. ASSUME Snapshot \/ Register \/ Unregister PROVE Phases'
  <2>1. spc' = spc
    BY <1>2 DEF Snapshot, Register, Unregister, Unpatch
  <2> QED
    BY <1>1, <2>1 DEF IInv, Phases, ListOf, None, Has, GaveBack
<1>3. ASSUME ScheduleStop \/ SuspendBlocks \/ UnregisterProbes \/ UnloadBlind PROVE Phases'
  <2>1. (spc = "run" /\ spc' = "stopping") \/ spc' \in {"blocked", "blind", "scan"}
    BY <1>3 DEF ScheduleStop, SuspendBlocks, UnregisterProbes, UnloadBlind
  <2> QED
    BY <1>1, <2>1 DEF IInv, Phases, ListOf, None, Has, GaveBack
<1>4. ASSUME EndClose \/ LookAgain PROVE Phases'
  <2>1. spc \in {"close", "quiesce"} /\ spc' \in {"quiesce", "again"}
    BY <1>4 DEF EndClose, LookAgain
  <2> QED
    BY <1>1, <2>1 DEF IInv, Phases, ListOf, None, Has, GaveBack
<1> QED
  BY <1>1, <1>2, <1>3, <1>4, PlainStep

LEMMA EndWaitStep == ASSUME IInv, EndWait PROVE IInv'
<1>1. /\ UNCHANGED <<object, pc, at, frames, tls, mine>> /\ patched' \in 0 .. MaxProbes
      /\ slipped \subseteq slipped'
  BY DEF EndWait, probeVars, threadVars, IInv, Types
<1>2. Phases'
  BY <1>1 DEF EndWait, IInv, Phases, ListOf, None, Has, GaveBack
<1> QED
  BY <1>1, <1>2, PlainStep

LEMMA EndScanStep == ASSUME IInv, EndScan PROVE IInv'
<1>1. /\ UNCHANGED <<object, pc, at, frames, tls, mine>> /\ patched' \in 0 .. MaxProbes
      /\ slipped \subseteq slipped'
  BY DEF EndScan, probeVars, threadVars, IInv, Types
<1>2. Phases'
  <2>1. \A t \in Threads \ slipped' : pc[t] \notin {"build", "insert"} /\ (Has(t) => ListOf(t) # "active")
    BY DEF EndScan, None, ListOf, IInv, Types, Has
  <2> QED
    BY <1>1, <2>1 DEF EndScan, IInv, Phases, ListOf, None, Has, GaveBack
<1> QED
  BY <1>1, <1>2, PlainStep

\* A thread that is seen, and neither in the runtime nor in a trap.
LEMMA SeenOut ==
  ASSUME Types, NEW t \in Threads, t \notin late => OutOfRuntime(t) /\ OutOfTrap(t), ~Unseen(t)
  PROVE  pc[t] \in {"new", "app", "gone"}
<1>1. Places(t) = {"app"} \/ (Places(t) # {"runtime"} /\ "system" \notin Places(t) /\ Places(t) # {"trap"})
  BY DEF OutOfRuntime, OutOfTrap, Unseen, InSystem
<1>2. ASSUME pc[t] \in {"stub", "leave"} PROVE Places(t) = {"trap"} /\ "trap" # "app"
  BY <1>2 DEF Places
<1>3. ASSUME pc[t] \in {"check", "known", "store", "cookie"} PROVE Places(t) = {"runtime"} /\ "runtime" # "app"
  BY <1>3 DEF Places
<1>4. ASSUME pc[t] \in {"build", "insert", "capture", "write", "detach"}
      PROVE  "system" \in Places(t) /\ "system" # "app"
  BY <1>4 DEF Places
<1> QED
  BY <1>1, <1>2, <1>3, <1>4 DEF Types

LEMMA UnloadStep == ASSUME IInv, Unload PROVE IInv'
<1>1. /\ UNCHANGED <<object, pc, at, frames, tls, mine>> /\ patched' \in 0 .. MaxProbes
      /\ slipped \subseteq slipped'
  BY DEF Unload, probeVars, threadVars, IInv, Types
<1>2. Phases'
  <2>1. \A t \in Threads \ slipped' : pc[t] \in {"new", "app", "gone"}
    BY SeenOut DEF Unload, AllOut, IInv
  <2> QED
    BY <1>1, <2>1 DEF Unload, IInv, Phases, ListOf, None, Has, GaveBack
<1> QED
  BY <1>1, <1>2, PlainStep

\* A step that changes an object without an owner.
LEMMA UnownedStep ==
  ASSUME IInv, NEW o \in Objects, object' \in [Objects -> Thread],
         UNCHANGED <<probeVars, threadVars, spc>>, slipped' = slipped,
         \A u \in Threads : Has(u) => mine[u] # o, \A p \in Objects \ {o} : object'[p] = object[p],
         object'[o].list \in Judgements => spc \in Later,
         object'[o].list = "pending" => spc \notin {"close", "quiesce", "again", "unloaded"}
  PROVE  IInv'
<1>1. /\ UNCHANGED <<pc, at, frames, tls, mine, spc>> /\ patched' = patched
      /\ \A u \in Threads : Has(u) => object'[mine[u]] = object[mine[u]]
  BY DEF threadVars, probeVars, IInv, Types, Has
<1>2. \A u \in Threads : Same(u) /\ (Has(u)' <=> Has(u))
  BY <1>1 DEF Same, Has, GaveBack
<1>3. Types' /\ Owned'
  <2>1. Types'
    BY <1>1 DEF IInv, Types
  <2> QED
    BY <1>1, <1>2, <2>1 DEF IInv, Owned, ListOf
<1>4. (\A u \in Threads : StackNames(u)') /\ \A u \in Threads \ slipped' : Judged(u)' /\ Mapped(u)'
  BY <1>2, Kept DEF IInv
<1>5. Phases'
  <2>1. \A p \in Objects : object'[p].list \in Judgements => spc \in Later
    BY DEF IInv, Phases, Judgements, Later
  <2>2. spc \in {"close", "quiesce", "again", "unloaded"} => None("pending")'
    BY DEF IInv, Phases, None
  <2> QED
    BY <1>1, <1>2, <2>1, <2>2 DEF IInv, Phases, ListOf, Judgements, Later
<1> QED
  BY <1>3, <1>4, <1>5 DEF IInv

LEMMA GoneUnowned ==
  ASSUME IInv, NEW o \in Objects, object[o].gone PROVE \A u \in Threads : Has(u) => mine[u] # o
BY DEF IInv, Owned

LEMMA ScanRundownStep == ASSUME IInv, ScanRundown PROVE IInv'
<1>1. PICK o \in Objects : object[o].gone /\ object' = [object EXCEPT ![o] = Pooled]
  BY DEF ScanRundown
<1>2. Pooled \in Thread /\ Pooled.list = "pool"
  BY DEF Thread, Lists, Pooled, NewObject
<1>3. /\ object' \in [Objects -> Thread] /\ object'[o] = Pooled
      /\ \A p \in Objects \ {o} : object'[p] = object[p]
  BY <1>1, <1>2 DEF IInv, Types
<1>4. UNCHANGED <<probeVars, threadVars, spc>> /\ slipped' = slipped
  BY DEF ScanRundown, StaysKnown
<1> QED
  BY <1>1, <1>2, <1>3, <1>4, GoneUnowned, UnownedStep DEF Judgements

LEMMA Owners ==
  ASSUME IInv, NEW u \in Threads, NEW o \in Objects, mine[u] = o, pc[u] # "cookie" PROVE Owner(o) = u
<1>1. \A v \in Threads : mine[v] = o /\ pc[v] # "cookie" => Has(v)
  BY DEF Has, GaveBack, Objects
<1>2. \A v \in Threads : mine[v] = o /\ pc[v] # "cookie" => v = u
  BY <1>1 DEF IInv, Owned
<1> QED
  BY <1>2 DEF Owner

\* A thread whose object the schedule thread handles is not about to give it back.
LEMMA NoCookie ==
  ASSUME IInv, NEW u \in Threads, Has(u), ListOf(u) # "rundown" PROVE pc[u] # "cookie"
BY DEF IInv, StackNames, Has, GaveBack

\* What a judgement says of the thread, unless that could not be seen.
LEMMA TestJudges ==
  ASSUME IInv, NEW o \in Objects, object[o].list \in {"active", "pending"}, Test(o)
  PROVE  /\ slipped \subseteq slipped'
         /\ \E l \in {"pending", "complete"} :
              /\ object' = [object EXCEPT ![o].list = l]
              /\ l = "complete" => \A u \in Threads : Has(u) /\ mine[u] = o /\ u \notin slipped' =>
                   frames[u] = << >> /\ pc[u] \in {"app", "stub", "check", "leave"}
<1> DEFINE t == Owner(o)
<1>1. ASSUME NEW u \in Threads, Has(u), mine[u] = o PROVE t = u /\ pc[u] # "cookie"
  BY <1>1, NoCookie, Owners DEF ListOf
<1>2. CASE /\ OutOfRuntime(t)
           /\ object' = [object EXCEPT ![o].list = IF frames[t] # << >> THEN "pending" ELSE "complete"]
           /\ slipped' = IF InSystem(t) THEN slipped \cup {t} ELSE slipped
  <2>1. ASSUME NEW u \in Threads, Has(u), mine[u] = o, u \notin slipped'
        PROVE  pc[u] \in {"app", "stub", "check", "leave"} /\ t = u
    <3>1. t = u /\ OutOfRuntime(u) /\ ~InSystem(u) /\ pc[u] \notin {"new", "gone"}
      BY <1>1, <1>2, <2>1 DEF IInv, StackNames, Has
    <3> QED
      BY <3>1 DEF OutOfRuntime, InSystem, Places, IInv, Types
  <2>2. CASE frames[t] # << >>
    BY <1>2, <2>2
  <2>3. CASE frames[t] = << >>
    BY <1>2, <2>1, <2>3
  <2> QED
    BY <2>2, <2>3
<1>3. CASE object' = [object EXCEPT ![o].list = "complete"] /\ slipped' = slipped \cup {t}
  BY <1>1, <1>3
<1> QED
  BY <1>2, <1>3 DEF Test

\* The schedule thread judges a thread from outside.
LEMMA TestStep ==
  ASSUME IInv, NEW o \in Objects, object[o].list \in {"active", "pending"}, Test(o),
         UNCHANGED <<probeVars, threadVars, spc>>, spc \in {"scan", "wait"}
  PROVE  IInv'
<1>1. PICK l \in {"pending", "complete"} :
        /\ object' = [object EXCEPT ![o].list = l]
        /\ l = "complete" => \A u \in Threads : Has(u) /\ mine[u] = o /\ u \notin slipped' =>
             frames[u] = << >> /\ pc[u] \in {"app", "stub", "check", "leave"}
  BY TestJudges
<1>2. /\ object' \in [Objects -> Thread] /\ \A p \in Objects \ {o} : object'[p] = object[p]
      /\ object'[o].list = l /\ object'[o].gone = object[o].gone
      /\ object'[o].mapped = object[o].mapped /\ object'[o].exempt = object[o].exempt
  <2>1. l \in Lists
    BY DEF Lists
  <2> QED
    BY <1>1, <2>1, Moves
<1>3. /\ UNCHANGED <<pc, at, frames, tls, mine, spc>> /\ patched' = patched /\ slipped \subseteq slipped'
      /\ \A u \in Threads : Has(u)' <=> Has(u)
  BY TestJudges DEF threadVars, probeVars, Has, GaveBack
<1>4. ASSUME NEW u \in Threads, ~(Has(u) /\ mine[u] = o) PROVE Same(u)
  BY <1>2, <1>3, <1>4 DEF Same, Has, IInv, Types
<1>5. Types'
  BY <1>2, <1>3 DEF IInv, Types
<1>6. Owned'
  <2>1. \A u \in Threads : Has(u) => object'[mine[u]].list \notin {"unused", "pool"} /\ ~object'[mine[u]].gone
    BY <1>1, <1>2 DEF IInv, Owned, Types, ListOf, Has
  <2> QED
    BY <1>3, <2>1 DEF IInv, Owned, ListOf
<1>7. ASSUME NEW u \in Threads PROVE StackNames(u)'
  <2>1. CASE ~(Has(u) /\ mine[u] = o)
    BY <1>4, <2>1, Kept DEF IInv
  <2>2. CASE Has(u) /\ mine[u] = o
    BY <1>1, <1>2, <1>3, <2>2 DEF IInv, StackNames, ListOf, Has, GaveBack
  <2> QED
    BY <2>1, <2>2
<1>8. ASSUME NEW u \in Threads \ slipped' PROVE Judged(u)' /\ Mapped(u)'
  <2>1. u \in Threads /\ u \notin slipped /\ u \notin slipped'
    BY <1>3
  <2>2. Judged(u) /\ Mapped(u)
    BY <2>1 DEF IInv
  <2>3. CASE ~(Has(u) /\ mine[u] = o)
    BY <1>4, <2>1, <2>2, <2>3, Kept
  <2>4. CASE Has(u) /\ mine[u] = o
    BY <1>1, <1>2, <1>3, <2>1, <2>2, <2>4 DEF Judged, Mapped, ListOf
  <2> QED
    BY <2>3, <2>4
<1>9. Phases'
  <2>1. spc = "wait" => \A t \in Threads \ slipped' :
          pc[t] \notin {"build", "insert"} /\ (Has(t) => object'[mine[t]].list # "active")
    BY <1>1, <1>2, <1>3 DEF IInv, Phases, ListOf, Types, Has
  <2> QED
    BY <1>3, <2>1 DEF Phases, ListOf
<1> QED
  BY <1>5, <1>6, <1>7, <1>8, <1>9 DEF IInv

LEMMA ScanPendingStep == ASSUME IInv, ScanPending PROVE IInv'
<1>1. PICK o \in Objects :
        /\ object[o].list = "active"
        /\ IF object[o].gone
           THEN /\ object' = [object EXCEPT ![o].mapped = FALSE, ![o].list = "closed"]
                /\ UNCHANGED <<slipped, faults>>
           ELSE Test(o)
  BY DEF ScanPending
<1>2. UNCHANGED <<probeVars, threadVars, spc>> /\ spc = "scan"
  BY DEF ScanPending
<1>3. CASE object[o].gone
  <2> DEFINE new == [object[o] EXCEPT !.mapped = FALSE, !.list = "closed"]
  <2>1. object[o] \in Thread
    BY DEF IInv, Types
  <2>2. new \in Thread /\ new.list = "closed"
    BY <2>1 DEF Thread, Lists
  <2>3. object' = [object EXCEPT ![o] = new]
    BY <1>1, <1>3 DEF IInv, Types
  <2> HIDE DEF new
  <2>4. /\ object' \in [Objects -> Thread] /\ object'[o] = new
        /\ \A p \in Objects \ {o} : object'[p] = object[p]
    BY <2>2, <2>3 DEF IInv, Types
  <2> QED
    BY <1>1, <1>2, <1>3, <2>2, <2>4, GoneUnowned, UnownedStep DEF Judgements, Later
<1>4. CASE ~object[o].gone
  BY <1>1, <1>2, <1>4, TestStep
<1> QED
  BY <1>3, <1>4

LEMMA TestPendingStep == ASSUME IInv, TestPending PROVE IInv'
<1>1. PICK o \in Objects :
        /\ object[o].list = "pending"
        /\ IF object[o].gone
           THEN object' = [object EXCEPT ![o].list = "complete"] /\ UNCHANGED <<slipped, faults>>
           ELSE Test(o)
  BY DEF TestPending
<1>2. UNCHANGED <<probeVars, threadVars, spc>> /\ spc = "wait"
  BY DEF TestPending
<1>3. CASE object[o].gone
  <2>1. /\ object' \in [Objects -> Thread] /\ \A p \in Objects \ {o} : object'[p] = object[p]
        /\ object'[o].list = "complete"
    BY <1>1, <1>3, Moves DEF Lists
  <2> QED
    BY <1>1, <1>2, <1>3, <2>1, GoneUnowned, UnownedStep DEF Judgements, Later
<1>4. CASE ~object[o].gone
  BY <1>1, <1>2, <1>4, TestStep
<1> QED
  BY <1>3, <1>4

LEMMA CloseObjectStep == ASSUME IInv, CloseObject PROVE IInv'
<1>1. PICK o \in Objects :
        /\ object[o].list = "complete"
        /\ object' = [object EXCEPT ![o].mapped = FALSE, ![o].list = "closed"]
        /\ tls' = [t \in Threads |-> IF mine[t] = o /\ pc[t] # "cookie" THEN "none" ELSE tls[t]]
  BY DEF CloseObject
<1>2. UNCHANGED <<probeVars, pc, at, frames, mine, spc, slipped>> /\ spc = "close"
  BY DEF CloseObject
<1> DEFINE new == [object[o] EXCEPT !.mapped = FALSE, !.list = "closed"]
<1>3. object[o] \in Thread /\ o # 0
  <2>1. object[o] \in Thread
    BY DEF IInv, Types
  <2> QED
    BY <2>1 DEF Objects
<1>4. new \in Thread /\ new.list = "closed" /\ new.gone = object[o].gone
  BY <1>3 DEF Thread, Lists
<1>5. object' = [object EXCEPT ![o] = new]
  BY <1>1 DEF IInv, Types
<1> HIDE DEF new
<1>6. /\ object' \in [Objects -> Thread] /\ object'[o] = new
      /\ \A p \in Objects \ {o} : object'[p] = object[p]
  BY <1>4, <1>5 DEF IInv, Types
<1>7. Types' /\ \A u \in Threads : Has(u)' <=> Has(u)
  BY <1>1, <1>2, <1>6 DEF IInv, Types, probeVars, Has, GaveBack
<1>8. Owned'
  <2>1. \A u \in Threads : Has(u) => object'[mine[u]].list \notin {"unused", "pool"} /\ ~object'[mine[u]].gone
    BY <1>4, <1>6 DEF IInv, Owned, Types, ListOf, Has
  <2> QED
    BY <1>2, <1>7, <2>1 DEF IInv, Owned, ListOf
<1>9. ASSUME NEW u \in Threads, ~(Has(u) /\ mine[u] = o) PROVE Same(u)
  <2>1. ~(mine[u] = o /\ pc[u] # "cookie")
    BY <1>3, <1>9 DEF Has, GaveBack
  <2> QED
    BY <1>1, <1>2, <1>6, <1>9, <2>1 DEF Same, Has, IInv, Types
<1>10. ASSUME NEW u \in Threads PROVE StackNames(u)'
  <2>1. CASE ~(Has(u) /\ mine[u] = o)
    BY <1>9, <2>1, Kept DEF IInv
  <2>2. CASE Has(u) /\ mine[u] = o
    <3>1. pc[u] \notin {"detach", "build", "insert", "gone", "new"} /\ pc[u] # "cookie"
          /\ (pc[u] = "store" => frames[u] = << >>)
      BY <1>1, <1>3, <2>2, NoCookie DEF IInv, StackNames, ListOf
    <3>2. /\ tls'[u] = "none" /\ ListOf(u)' = "closed" /\ mine'[u] # 0 /\ pc'[u] = pc[u]
          /\ frames'[u] = frames[u]
      BY <1>1, <1>2, <1>3, <1>4, <1>6, <2>2, <3>1 DEF ListOf
    <3> QED
      BY <3>1, <3>2 DEF StackNames
  <2> QED
    BY <2>1, <2>2
<1>11. ASSUME NEW u \in Threads \ slipped' PROVE Judged(u)' /\ Mapped(u)'
  <2>1. u \in Threads /\ Judged(u) /\ Mapped(u)
    BY <1>2 DEF IInv
  <2>2. CASE ~(Has(u) /\ mine[u] = o)
    BY <1>9, <2>1, <2>2, Kept
  <2>3. CASE Has(u) /\ mine[u] = o
    BY <1>1, <1>2, <1>3, <1>4, <1>6, <1>7, <2>1, <2>3 DEF Judged, Mapped, ListOf
  <2> QED
    BY <2>2, <2>3
<1>12. Phases'
  <2>1. None("pending")'
    BY <1>2, <1>4, <1>6 DEF IInv, Phases, None
  <2>2. \A t \in Threads \ slipped :
          pc[t] \notin {"build", "insert"} /\ (Has(t) => object'[mine[t]].list # "active")
    BY <1>2, <1>4, <1>6 DEF IInv, Phases, ListOf, Types, Has
  <2> QED
    BY <1>2, <1>7, <2>1, <2>2 DEF Phases, ListOf
<1> QED
  BY <1>7, <1>8, <1>10, <1>11, <1>12 DEF IInv
-----------------------------------------------------------------------------
LEMMA InitIInv == Init => IInv
<1> SUFFICES ASSUME Init PROVE IInv
  OBVIOUS
<1>1. Types
  <2>1. NewObject \in Thread
    BY DEF NewObject, Thread, Lists
  <2> QED
    BY <2>1, CallsAssumption DEF Init, Types
<1>2. Owned /\ Phases
  BY DEF Init, Owned, Phases, NewObject, Has
<1>3. \A t \in Threads : StackNames(t) /\ Judged(t) /\ Mapped(t)
  BY DEF Init, StackNames, Judged, Mapped, Has
<1> QED
  BY <1>1, <1>2, <1>3 DEF IInv

LEMMA StutterIInv == ASSUME IInv, UNCHANGED vars PROVE IInv'
BY DEF IInv, vars, probeVars, threadVars, Types, Owned, Phases, StackNames, Judged, Mapped,
       ListOf, None, Has, GaveBack

LEMMA NextIInv == IInv /\ [Next]_vars => IInv'
<1> SUFFICES ASSUME IInv, [Next]_vars PROVE IInv'
  OBVIOUS
<1>1. ASSUME NEW t \in Threads, Runs(t) PROVE IInv'
  BY <1>1, EnterProcedureStep, ExemptCallStep, FindThreadStep, AllocateThreadStep, InsertThreadStep,
     StoreThreadStep, CountReferenceStep, PushFrameStep, WriteRecordStep, LeaveTrapStep, PopFrameStep,
     QueueRundownStep, SetExemptionCookieStep DEF Runs, InCall, Followed
<1>2. ASSUME NEW t \in Threads, Program(t) PROVE IInv'
  BY <1>2, BeginStep, CallStep, UnwindStep, RemoveActiveStep, SetCookieStep, EndsStep
     DEF Program, Terminate, Kill, Followed
<1>3. CASE Snapshot \/ Register \/ Unregister \/ ScanRundown \/ ScheduleStop \/ SuspendBlocks \/ UnloadBlind
  BY <1>3, SamePhaseStep, ScanRundownStep
<1>4. CASE Unloads
  BY <1>4, SamePhaseStep, ScanPendingStep, EndScanStep, TestPendingStep, EndWaitStep,
     CloseObjectStep, UnloadStep DEF Unloads
<1>5. CASE UNCHANGED vars
  BY <1>5, StutterIInv
<1> QED
  BY <1>1, <1>2, <1>3, <1>4, <1>5 DEF Next

LEMMA Inductive == Spec => []IInv
BY InitIInv, NextIInv, PTL DEF Spec

\* A thread object whose thread has a frame or writes a record through its views
\* is neither given back nor closed, and another thread names it only if one of
\* the two has given it back and is about to store the cookie.
THEOREM FramesKeepObjects == Spec => []ObjectsHeld
<1>1. IInv => ObjectsHeld
  <2> SUFFICES ASSUME IInv PROVE ObjectsHeld
    OBVIOUS
  <2>1. ASSUME NEW t \in Threads, t \notin slipped, frames[t] # << >> \/ pc[t] \in {"capture", "write"}
        PROVE  object[mine[t]].mapped /\ object[mine[t]].list \notin {"pool", "closed"}
    <3>1. Has(t)
      BY <2>1 DEF IInv, StackNames, Has, GaveBack
    <3>2. ListOf(t) \notin {"unused", "pool"} /\ Judged(t) /\ Mapped(t)
      BY <2>1, <3>1 DEF IInv, Owned
    <3> QED
      BY <2>1, <3>1, <3>2 DEF Judged, Mapped, ListOf
  <2>2. \A t, u \in Threads : mine[t] = mine[u] /\ mine[t] # 0 => t = u \/ GaveBack(t) \/ GaveBack(u)
    BY DEF IInv, Owned, Has
  <2> QED
    BY <2>1, <2>2 DEF ObjectsHeld
<1> QED
  BY <1>1, Inductive, PTL

\* When the library is unloaded no thread that could be seen is in it, and only
\* one that detached inside a call has a frame to return through.
THEOREM UnloadFindsQuiet == Spec => []UnloadedIsQuiet
<1>1. IInv => UnloadedIsQuiet
  <2> SUFFICES ASSUME IInv, spc = "unloaded", NEW t \in Threads, t \notin slipped
               PROVE  /\ pc[t] \in {"new", "app", "gone"}
                      /\ frames[t] # << >> => object[mine[t]].list = "rundown"
    BY DEF UnloadedIsQuiet
  <2>1. pc[t] \in {"new", "app", "gone"}
    BY DEF IInv, Phases
  <2>2. ASSUME frames[t] # << >> PROVE ListOf(t) = "rundown"
    <3>1. Has(t) /\ mine[t] \in Objects
      BY <2>2 DEF IInv, StackNames, Types, Has, GaveBack
    <3>2. ListOf(t) \notin {"pending", "active", "complete", "closed"}
      BY <2>2, <3>1 DEF IInv, Phases, None, Judged, ListOf
    <3>3. tls[t] \in {"none", "null", "object", "cookie"}
      BY DEF IInv, Types
    <3> QED
      BY <2>1, <3>1, <3>2, <3>3 DEF IInv, StackNames, Has
  <2> QED
    BY <2>1, <2>2 DEF ListOf
<1> QED
  BY <1>1, Inductive, PTL
-----------------------------------------------------------------------------
\* The probes a thread has counted a reference of: its frames, and the call it
\* is recording or for which it pushes a frame.
Held(t) == IF pc[t] \in {"capture", "write"} THEN Append(frames[t], at[t]) ELSE frames[t]

Holders(p) == {x \in Threads \X Nat : x[2] \in 1 .. Len(Held(x[1])) /\ Held(x[1])[x[2]] = p}

Counted ==
  /\ references \in [Probes -> Nat]
  /\ \A p \in Probes : IsFiniteSet(Holders(p)) /\ Cardinality(Holders(p)) <= references[p]

Placed ==
  /\ probe \in [Probes -> {"unused", "on", "off", "freed"}]
  /\ patched # 0 => probe[patched] = "on"
  /\ frames \in [Threads -> Seq(Probes)]
  /\ \A t \in Threads :
       IF pc[t] \in {"new", "app", "gone", "detach", "cookie"} THEN at[t] = 0 ELSE at[t] \in Probes

Stages == {"run", "stopping", "scan", "wait", "close", "quiesce", "again",
           "unloaded", "blind", "blocked"}

Runtime ==
  Snapshot \/ Register \/ Unregister \/ ScanRundown \/ ScheduleStop \/ SuspendBlocks \/ Unloads \/ UnloadBlind

\* A thread object in these lists belongs to a thread until that has ended.
HasOwner ==
  /\ \A o \in Objects : object[o].list \in {"active", "pending"} /\ ~object[o].gone =>
       \E t \in Threads : mine[t] = o /\ pc[t] # "cookie"
  /\ last \subseteq Probes /\ late \subseteq Threads
  /\ spc \in Stages /\ slipped \subseteq Threads /\ faults \in 0 .. MaxFaults

RInv == IInv /\ Placed /\ HasOwner /\ Counted /\ NoUseAfterFree
-----------------------------------------------------------------------------
(* Where a call is, and which probe it is of.                               *)

Control == {"new", "app", "stub", "check", "build", "insert", "store", "known",
            "capture", "write", "leave", "detach", "cookie", "gone"}

LEMMA ThreadPlaces ==
  ASSUME IInv, Placed, NEW t \in Threads, Runs(t) \/ Program(t)
  PROVE  Placed' /\ UNCHANGED <<probe, patched>>
<1> USE DEF Goes, StaysKnown, probeVars
<1>1. /\ UNCHANGED <<probe, patched>> /\ pc \in [Threads -> Control] /\ at \in [Threads -> 0 .. MaxProbes]
      /\ frames \in [Threads -> Seq(Probes)] /\ frames[t] \in Seq(Probes)
  BY DEF IInv, Types, Control, Placed, Runs, InCall, Program, Terminate, Kill, Ends, Begin, Call,
         EnterProcedure, ExemptCall, FindThread, AllocateThread, InsertThread, StoreThread,
         CountReference, PushFrame, WriteRecord, LeaveTrap, PopFrame, QueueRundown, SetExemptionCookie,
         Unwind, RemoveActive, SetCookie
<1>2. (IF pc[t] \in {"new", "app", "gone", "detach", "cookie"} THEN at[t] = 0 ELSE at[t] \in Probes)
      /\ (patched # 0 => patched \in Probes)
  BY DEF Placed, IInv, Types, Probes
<1>3. frames' \in [Threads -> Seq(Probes)]
  <2>1. CASE PushFrame(t)
    <3>1. Append(frames[t], at[t]) \in Seq(Probes)
      BY <1>1, <1>2, <2>1 DEF PushFrame
    <3> QED
      BY <1>1, <2>1, <3>1 DEF PushFrame
  <2>2. CASE PopFrame(t) \/ Unwind(t)
    <3>1. Front(frames[t]) \in Seq(Probes)
      BY <1>1, <2>2, Popped DEF PopFrame, Unwind
    <3> QED
      BY <1>1, <2>2, <3>1 DEF PopFrame, Unwind
  <2>3. CASE Terminate(t) \/ Kill(t)
    <3>1. << >> \in Seq(Probes)
      OBVIOUS
    <3> QED
      BY <1>1, <2>3, <3>1 DEF Terminate, Kill, Ends
  <2>4. CASE frames' = frames
    BY <1>1, <2>4
  <2> QED
    BY <2>1, <2>2, <2>3, <2>4 DEF Runs, InCall, Program, Begin, Call, EnterProcedure, ExemptCall, FindThread,
       AllocateThread, InsertThread, StoreThread, CountReference, WriteRecord, LeaveTrap, QueueRundown,
       SetExemptionCookie, RemoveActive, SetCookie
<1>4. /\ IF pc'[t] \in {"new", "app", "gone", "detach", "cookie"} THEN at'[t] = 0 ELSE at'[t] \in Probes
      /\ \A u \in Threads \ {t} : pc'[u] = pc[u] /\ at'[u] = at[u]
  <2>1. CASE Call(t)
    BY <1>1, <1>2, <2>1 DEF Call, IInv, Types
  <2>2. CASE PopFrame(t)
    BY <1>1, <2>2, Popped DEF PopFrame
  <2>3. CASE PushFrame(t) \/ LeaveTrap(t)
    BY <1>1, <2>3 DEF PushFrame, LeaveTrap
  <2>4. CASE \/ Begin(t) \/ Unwind(t) \/ RemoveActive(t) \/ SetCookie(t) \/ Terminate(t) \/ Kill(t)
             \/ QueueRundown(t) \/ SetExemptionCookie(t)
    BY <1>1, <1>2, <2>4 DEF Begin, Unwind, RemoveActive, SetCookie, Terminate, Kill, Ends, QueueRundown,
       SetExemptionCookie
  <2>5. CASE \/ EnterProcedure(t) \/ ExemptCall(t) \/ FindThread(t)
             \/ AllocateThread(t) \/ InsertThread(t) \/ StoreThread(t) \/ CountReference(t) \/ WriteRecord(t)
    BY <1>1, <1>2, <2>5 DEF EnterProcedure, ExemptCall, FindThread, AllocateThread, InsertThread,
       StoreThread, CountReference, WriteRecord
  <2> QED
    BY <2>1, <2>2, <2>3, <2>4, <2>5 DEF Runs, InCall, Program
<1> QED
  BY <1>1, <1>3, <1>4 DEF Placed

LEMMA RuntimePlaces ==
  ASSUME IInv, Placed, Runtime
  PROVE  /\ Placed' /\ UNCHANGED <<pc, at, frames, mine>>
         /\ \A p \in Probes : probe[p] \in {"on", "off"} /\ probe'[p] # probe[p] =>
              probe'[p] = "off" \/ (Unregister /\ p = patched)
<1>1. UNCHANGED <<pc, at, frames, mine>>
  BY DEF Runtime, Snapshot, Register, Unregister, Unpatch, ScanRundown, ScheduleStop, SuspendBlocks, Unloads,
         UnregisterProbes, ScanPending, EndScan, TestPending, EndWait, CloseObject, EndClose, LookAgain, Unload,
         UnloadBlind, StaysKnown, threadVars
<1> DEFINE Good == /\ probe' \in [Probes -> {"unused", "on", "off", "freed"}]
                   /\ patched' # 0 => probe'[patched'] = "on"
                   /\ \A p \in Probes : probe[p] \in {"on", "off"} /\ probe'[p] # probe[p] =>
                        probe'[p] = "off" \/ (Unregister /\ p = patched)
<1>2. Good
  <2>1. CASE Register
    BY <2>1 DEF Register, Placed
  <2>2. CASE Unregister
    BY <2>2 DEF Unregister, Unpatch, Placed, IInv, Types, Probes
  <2>3. CASE UnregisterProbes
    BY <2>3 DEF UnregisterProbes, Placed
  <2>4. CASE UNCHANGED <<probe, patched>>
    BY <2>4 DEF Placed
  <2> QED
    BY <2>1, <2>2, <2>3, <2>4 DEF Runtime, Snapshot, ScanRundown, ScheduleStop, SuspendBlocks, Unloads,
       ScanPending, EndScan, TestPending, EndWait, CloseObject, EndClose, LookAgain, Unload, UnloadBlind,
       StaysKnown, probeVars
<1> QED
  BY <1>1, <1>2 DEF Placed

-----------------------------------------------------------------------------
(* The count.                                                               *)
LEMMA Fewer ==
  ASSUME NEW A, IsFiniteSet(A), NEW B, NEW x
  PROVE  /\ B \subseteq A => IsFiniteSet(B) /\ Cardinality(B) <= Cardinality(A)
         /\ B \subseteq A \cup {x} => IsFiniteSet(B) /\ Cardinality(B) <= Cardinality(A) + 1
         /\ x \in A /\ B \subseteq A \ {x} => IsFiniteSet(B) /\ Cardinality(B) <= Cardinality(A) - 1
<1>1. Cardinality(A) \in Nat
  BY FS_CardinalityType
<1>2. ASSUME B \subseteq A PROVE IsFiniteSet(B) /\ Cardinality(B) <= Cardinality(A)
  BY <1>2, FS_Subset
<1>3. ASSUME B \subseteq A \cup {x} PROVE IsFiniteSet(B) /\ Cardinality(B) <= Cardinality(A) + 1
  <2>1. IsFiniteSet(A \cup {x}) /\ Cardinality(A \cup {x}) <= Cardinality(A) + 1
    BY <1>1, FS_AddElement
  <2>2. IsFiniteSet(B) /\ Cardinality(B) <= Cardinality(A \cup {x})
    BY <1>3, <2>1, FS_Subset
  <2>3. Cardinality(B) \in Nat /\ Cardinality(A \cup {x}) \in Nat
    BY <2>1, <2>2, FS_CardinalityType
  <2> QED
    BY <1>1, <2>1, <2>2, <2>3
<1>4. ASSUME x \in A, B \subseteq A \ {x} PROVE IsFiniteSet(B) /\ Cardinality(B) <= Cardinality(A) - 1
  <2>1. IsFiniteSet(A \ {x}) /\ Cardinality(A \ {x}) = Cardinality(A) - 1
    BY <1>4, FS_RemoveElement
  <2>2. IsFiniteSet(B) /\ Cardinality(B) <= Cardinality(A \ {x})
    BY <1>4, <2>1, FS_Subset
  <2> QED
    BY <2>1, <2>2
<1> QED
  BY <1>2, <1>3, <1>4

\* A step that takes no reference, and no thread holds a probe it did not hold.
LEMMA HeldFewer ==
  ASSUME Counted, references' = references,
         \A u \in Threads : \A i \in 1 .. Len(Held(u)') :
           i \in 1 .. Len(Held(u)) /\ Held(u)'[i] = Held(u)[i]
  PROVE  Counted'
<1>1. \A p : Holders(p)' \subseteq Holders(p)
  BY DEF Holders
<1>2. \A p \in Probes : IsFiniteSet(Holders(p)') /\ Cardinality(Holders(p)') <= Cardinality(Holders(p))
  BY <1>1, Fewer DEF Counted
<1>3. \A p \in Probes : Cardinality(Holders(p)) \in Nat /\ Cardinality(Holders(p)') \in Nat
  BY <1>2, FS_CardinalityType DEF Counted
<1> QED
  BY <1>2, <1>3 DEF Counted

LEMMA CountReferenceCounted ==
  ASSUME IInv, Placed, Counted, NEW t \in Threads, CountReference(t) PROVE Counted'
<1> DEFINE q == at[t]  n == Len(frames[t]) + 1
<1>1. q \in Probes /\ n \in Nat \ {0} /\ frames[t] \in Seq(Probes)
  <2>1. frames[t] \in Seq(Probes) /\ pc[t] = "known"
    BY DEF Placed, CountReference, Goes
  <2>2. at[t] \in Probes
    BY <2>1 DEF Placed
  <2> QED
    BY <2>1, <2>2
<1>2. /\ Held(t) = frames[t] /\ Held(t)' = Append(frames[t], q)
      /\ \A u \in Threads \ {t} : Held(u)' = Held(u)
  BY DEF Held, CountReference, Goes, IInv, Types
<1>3. references' = [references EXCEPT ![q] = @ + 1]
  BY DEF CountReference
<1> HIDE DEF q
<1>4. ASSUME NEW p \in Probes PROVE Holders(p)' \subseteq Holders(p) \cup {<<t, n>>}
  BY <1>1, <1>2 DEF Holders
<1>5. ASSUME NEW p \in Probes, p # q PROVE Holders(p)' \subseteq Holders(p)
  BY <1>1, <1>2, <1>5 DEF Holders
<1>6. ASSUME NEW p \in Probes PROVE IsFiniteSet(Holders(p)') /\ Cardinality(Holders(p)') <= references'[p]
  <2>1. /\ IsFiniteSet(Holders(p)) /\ Cardinality(Holders(p)) \in Nat
        /\ Cardinality(Holders(p)) <= references[p]
    BY FS_CardinalityType DEF Counted
  <2>2. CASE p = q
    <3>1. IsFiniteSet(Holders(p)') /\ Cardinality(Holders(p)') <= Cardinality(Holders(p)) + 1
      BY <1>4, <2>1, Fewer
    <3>2. Cardinality(Holders(p)') \in Nat /\ references'[p] = references[p] + 1 /\ references[p] \in Nat
      BY <1>3, <2>2, <3>1, FS_CardinalityType DEF Counted
    <3> QED
      BY <2>1, <3>1, <3>2
  <2>3. CASE p # q
    <3>1. IsFiniteSet(Holders(p)') /\ Cardinality(Holders(p)') <= Cardinality(Holders(p))
      BY <1>5, <2>1, <2>3, Fewer
    <3>2. Cardinality(Holders(p)') \in Nat /\ references'[p] = references[p] /\ references[p] \in Nat
      BY <1>3, <2>3, <3>1, FS_CardinalityType DEF Counted
    <3> QED
      BY <2>1, <3>1, <3>2
  <2> QED
    BY <2>2, <2>3
<1>7. references' \in [Probes -> Nat]
  BY <1>1, <1>3 DEF Counted
<1> QED
  BY <1>6, <1>7 DEF Counted

LEMMA WriteRecordCounted ==
  ASSUME IInv, Placed, Counted, NEW t \in Threads, WriteRecord(t) PROVE Counted'
<1>0. at[t] \in Probes
  BY DEF Placed, WriteRecord, Goes
<1>a. Len(frames[t]) + 1 \in Nat
  <2>1. frames[t] \in Seq(Probes)
    BY DEF Placed
  <2> QED
    BY <2>1
<1> PICK q \in Probes, n \in Nat : q = at[t] /\ n = Len(frames[t]) + 1
  BY <1>0, <1>a
<1>1. q \in Probes /\ n \in Nat \ {0} /\ frames[t] \in Seq(Probes)
  BY DEF Placed
<1>2. /\ Held(t) = Append(frames[t], q) /\ Held(t)' = frames[t]
      /\ \A u \in Threads \ {t} : Held(u)' = Held(u)
  BY DEF Held, WriteRecord, Goes, IInv, Types
<1>3. references' = [references EXCEPT ![q] = @ - 1]
  BY DEF WriteRecord
<1>4. <<t, n>> \in Holders(q) /\ Holders(q)' \subseteq Holders(q) \ {<<t, n>>}
  <2>1. <<t, n>> \in Holders(q)
    BY <1>1, <1>2 DEF Holders
  <2>2. <<t, n>> \notin Holders(q)'
    BY <1>1, <1>2 DEF Holders
  <2>3. Holders(q)' \subseteq Holders(q)
    BY <1>1, <1>2 DEF Holders
  <2> QED
    BY <2>1, <2>2, <2>3
<1>5. ASSUME NEW p \in Probes, p # q PROVE Holders(p)' \subseteq Holders(p)
  BY <1>1, <1>2, <1>5 DEF Holders
<1>6. ASSUME NEW p \in Probes
      PROVE  /\ IsFiniteSet(Holders(p)') /\ Cardinality(Holders(p)') <= references'[p]
             /\ references'[p] \in Nat
  <2>1. /\ IsFiniteSet(Holders(p)) /\ Cardinality(Holders(p)) \in Nat
        /\ Cardinality(Holders(p)) <= references[p]
    BY FS_CardinalityType DEF Counted
  <2>2. CASE p = q
    <3>1. IsFiniteSet(Holders(p)') /\ Cardinality(Holders(p)') <= Cardinality(Holders(p)) - 1
      <4>1. <<t, n>> \in Holders(p) /\ Holders(p)' \subseteq Holders(p) \ {<<t, n>>}
        BY <1>4, <2>2
      <4> QED
        BY <2>1, <4>1, Fewer
    <3>2. Cardinality(Holders(p)') \in Nat /\ references'[p] = references[p] - 1 /\ references[p] \in Nat
      BY <1>3, <2>2, <3>1, FS_CardinalityType DEF Counted
    <3> QED
      BY <2>1, <3>1, <3>2
  <2>3. CASE p # q
    <3>1. IsFiniteSet(Holders(p)') /\ Cardinality(Holders(p)') <= Cardinality(Holders(p))
      BY <1>5, <2>1, <2>3, Fewer
    <3>2. Cardinality(Holders(p)') \in Nat /\ references'[p] = references[p] /\ references[p] \in Nat
      BY <1>3, <2>3, <3>1, FS_CardinalityType DEF Counted
    <3> QED
      BY <2>1, <3>1, <3>2
  <2> QED
    BY <2>2, <2>3
<1>7. references' \in [Probes -> Nat]
  BY <1>3, <1>6 DEF Counted
<1> QED
  BY <1>6, <1>7 DEF Counted

LEMMA PushPopped ==
  ASSUME NEW S, NEW s \in Seq(S), s # << >> PROVE Append(Front(s), Last(s)) = s
<1>1. PICK n \in Nat : Len(s) = n + 1
  OBVIOUS
<1>2. Front(s) = SubSeq(s, 1, n) /\ Last(s) = s[n + 1] /\ Last(s) \in S
  BY <1>1 DEF Front, Last
<1>3. Front(s) \in Seq(S) /\ Len(Front(s)) = n /\ \A i \in 1 .. n : Front(s)[i] = s[i]
  BY <1>1, <1>2
<1>4. /\ Append(Front(s), Last(s)) \in Seq(S) /\ Len(Append(Front(s), Last(s))) = n + 1
      /\ \A i \in 1 .. n + 1 : Append(Front(s), Last(s))[i] = s[i]
  BY <1>2, <1>3
<1> QED
  BY <1>1, <1>4

LEMMA ThreadCounted ==
  ASSUME IInv, Placed, Counted, NEW t \in Threads, Runs(t) \/ Program(t) PROVE Counted'
<1> USE DEF Goes
<1> DEFINE Shrinks == /\ references' = references
                      /\ \A i \in 1 .. Len(Held(t)') : i \in 1 .. Len(Held(t)) /\ Held(t)'[i] = Held(t)[i]
                      /\ \A u \in Threads \ {t} : Held(u)' = Held(u)
<1>1. /\ pc \in [Threads -> Control] /\ at \in [Threads -> 0 .. MaxProbes]
      /\ frames \in [Threads -> Seq(Probes)] /\ frames[t] \in Seq(Probes)
  BY DEF IInv, Types, Control, Placed
<1>2. CASE CountReference(t)
  BY <1>2, CountReferenceCounted
<1>3. CASE WriteRecord(t)
  BY <1>3, WriteRecordCounted
<1>4. ASSUME PushFrame(t) PROVE Shrinks
  <2>1. at[t] \in Probes
    BY <1>4 DEF Placed, PushFrame
  <2>2. Held(t)' = Held(t) /\ \A u \in Threads \ {t} : Held(u)' = Held(u)
    BY <1>1, <1>4, <2>1 DEF Held, PushFrame
  <2> QED
    BY <1>4, <2>2 DEF PushFrame, probeVars
<1>5. ASSUME PopFrame(t) PROVE Shrinks
  <2>1. Held(t) = frames[t] /\ Held(t)' = Append(Front(frames[t]), Last(frames[t]))
        /\ \A u \in Threads \ {t} : Held(u)' = Held(u)
    BY <1>1, <1>5 DEF Held, PopFrame
  <2>2. Append(Front(frames[t]), Last(frames[t])) = frames[t]
    BY <1>1, <1>5, PushPopped DEF PopFrame
  <2>3. Held(t)' = Held(t)
    BY <1>1, <1>5, <2>1, <2>2 DEF PopFrame
  <2> QED
    BY <1>5, <2>1, <2>3 DEF PopFrame, probeVars
<1>6. ASSUME Unwind(t) PROVE Shrinks
  <2>1. Held(t) = frames[t] /\ Held(t)' = Front(frames[t]) /\ \A u \in Threads \ {t} : Held(u)' = Held(u)
    BY <1>1, <1>6 DEF Held, Unwind
  <2>2. \A k \in 1 .. Len(Front(frames[t])) :
          k \in 1 .. Len(frames[t]) /\ Front(frames[t])[k] = frames[t][k]
    <3>1. Len(frames[t]) \in Nat \ {0}
      BY <1>1, <1>6 DEF Unwind
    <3> QED
      BY <1>1, <3>1 DEF Front
  <2> QED
    BY <1>6, <2>1, <2>2 DEF Unwind, probeVars
<1>7. ASSUME Terminate(t) \/ Kill(t) PROVE Shrinks
  <2>1. Held(t)' = << >> /\ \A u \in Threads \ {t} : Held(u)' = Held(u)
    BY <1>1, <1>7 DEF Held, Terminate, Kill, Ends
  <2> QED
    BY <1>7, <2>1 DEF Terminate, Kill, Ends, probeVars
<1>8. ASSUME \/ Begin(t) \/ Call(t) \/ EnterProcedure(t) \/ ExemptCall(t) \/ FindThread(t)
             \/ AllocateThread(t) \/ InsertThread(t) \/ StoreThread(t)
             \/ LeaveTrap(t) \/ RemoveActive(t) \/ QueueRundown(t) \/ SetExemptionCookie(t) \/ SetCookie(t)
      PROVE  Shrinks
  <2>1. /\ frames' = frames /\ references' = references
        /\ pc[t] \notin {"capture", "write"} /\ pc'[t] \notin {"capture", "write"}
        /\ \A u \in Threads \ {t} : pc'[u] = pc[u] /\ at'[u] = at[u]
    BY <1>1, <1>8 DEF Begin, Call, EnterProcedure, ExemptCall, FindThread, AllocateThread, InsertThread,
       StoreThread, LeaveTrap, RemoveActive, QueueRundown, SetExemptionCookie, SetCookie, probeVars
  <2> QED
    BY <2>1 DEF Held
<1>9. ASSUME Shrinks PROVE Counted'
  <2>1. \A u \in Threads : \A i \in 1 .. Len(Held(u)') :
          i \in 1 .. Len(Held(u)) /\ Held(u)'[i] = Held(u)[i]
    BY <1>9
  <2> QED
    BY <1>9, <2>1, HeldFewer
<1> QED
  BY <1>2, <1>3, <1>4, <1>5, <1>6, <1>7, <1>8, <1>9 DEF Runs, InCall, Program

LEMMA RuntimeCounted ==
  ASSUME Counted, Runtime PROVE Counted'
<1>1. UNCHANGED <<pc, at, frames, references>>
  BY DEF Runtime, Snapshot, Register, Unregister, Unpatch, ScanRundown, ScheduleStop, SuspendBlocks, Unloads,
         UnregisterProbes, ScanPending, EndScan, TestPending, EndWait, CloseObject, EndClose, LookAgain, Unload,
         UnloadBlind, StaysKnown, threadVars, probeVars
<1> QED
  BY <1>1, HeldFewer DEF Held
-----------------------------------------------------------------------------
(* Nothing that is used is freed.                                           *)
LEMMA UsedProbes ==
  ASSUME NEW t \in Threads, NEW p
  PROVE  p \in Uses(t) <=> (p = at[t] /\ p # 0) \/ \E i \in DOMAIN frames[t] : frames[t][i] = p
BY DEF Uses, ToSet

LEMMA ThreadUses ==
  ASSUME RInv, NEW t \in Threads, Runs(t) \/ Program(t) PROVE NoUseAfterFree'
<1> USE DEF Goes, RInv
<1>1. probe' = probe /\ slipped \subseteq slipped'
  BY ThreadPlaces DEF Runs, InCall, Program, Terminate, Kill, Ends, Begin, Call,
     EnterProcedure, ExemptCall, FindThread, AllocateThread, InsertThread, StoreThread,
     CountReference, PushFrame, WriteRecord, LeaveTrap, PopFrame, QueueRundown, SetExemptionCookie,
     Unwind, RemoveActive, SetCookie, StaysKnown
<1>2. /\ pc \in [Threads -> Control] /\ at \in [Threads -> 0 .. MaxProbes]
      /\ frames \in [Threads -> Seq(Probes)] /\ frames[t] \in Seq(Probes)
  BY DEF IInv, Types, Control, Placed
<1>3. ASSUME NEW u \in Threads \ {t}, NEW p \in Uses(u)' PROVE p \in Uses(u)
  <2>1. at'[u] = at[u] /\ frames'[u] = frames[u]
    BY <1>2 DEF Runs, InCall, Program, Terminate, Kill, Ends, Begin, Call,
       EnterProcedure, ExemptCall, FindThread, AllocateThread, InsertThread, StoreThread,
       CountReference, PushFrame, WriteRecord, LeaveTrap, PopFrame, QueueRundown, SetExemptionCookie,
       Unwind, RemoveActive, SetCookie
  <2> QED
    BY <2>1 DEF Uses
<1>4. ASSUME NEW p \in Uses(t)' PROVE p \in Uses(t) \/ (p \in Probes /\ probe[p] = "on")
  <2>1. (p = at'[t] /\ p # 0) \/ \E i \in DOMAIN frames'[t] : frames'[t][i] = p
    BY <1>4 DEF Uses, ToSet
  <2>2. CASE Call(t)
    BY <1>2, <2>1, <2>2, UsedProbes DEF Call, Placed, IInv, Types, Probes
  <2>3. CASE PushFrame(t)
    <3>1. at[t] \in Probes
      BY <2>3 DEF Placed, PushFrame
    <3>2. at[t] # 0 /\ at'[t] = 0 /\ frames'[t] = Append(frames[t], at[t])
      BY <1>2, <2>3, <3>1 DEF PushFrame, Probes
    <3> QED
      BY <1>2, <2>1, <3>1, <3>2, UsedProbes
  <2>4. CASE PopFrame(t) \/ Unwind(t)
    <3>1. Len(frames[t]) \in Nat \ {0}
      BY <1>2, <2>4 DEF PopFrame, Unwind
    <3>2. frames'[t] = Front(frames[t]) /\ at'[t] \in {at[t], frames[t][Len(frames[t])]}
      BY <1>2, <2>4 DEF PopFrame, Unwind, Last
    <3>3. \A i \in DOMAIN Front(frames[t]) : i \in DOMAIN frames[t] /\ Front(frames[t])[i] = frames[t][i]
      BY <1>2, <3>1 DEF Front
    <3>4. Len(frames[t]) \in DOMAIN frames[t]
      BY <1>2, <3>1
    <3> QED
      BY <2>1, <3>2, <3>3, <3>4, UsedProbes
  <2>5. CASE Terminate(t) \/ Kill(t)
    <3>1. frames'[t] = << >> /\ at' = at
      BY <1>2, <2>5 DEF Terminate, Kill, Ends
    <3> QED
      BY <2>1, <3>1, UsedProbes
  <2>6. CASE frames' = frames /\ at'[t] \in {0, at[t]}
    BY <2>1, <2>6, UsedProbes
  <2>7. (frames' = frames /\ at'[t] \in {0, at[t]}) \/ Call(t) \/ PushFrame(t) \/ PopFrame(t) \/ Unwind(t)
        \/ Terminate(t) \/ Kill(t)
    BY <1>2 DEF Runs, InCall, Program, Begin, EnterProcedure, ExemptCall, FindThread, AllocateThread,
       InsertThread, StoreThread, CountReference, WriteRecord, LeaveTrap, QueueRundown, SetExemptionCookie, RemoveActive, SetCookie
  <2> QED
    BY <2>2, <2>3, <2>4, <2>5, <2>6, <2>7
<1> QED
  BY <1>1, <1>3, <1>4 DEF NoUseAfterFree

\* With no reference and no thread in the runtime or the trap, what a thread
\* that could be seen uses is another probe.
LEMMA UnregisterUses ==
  ASSUME RInv, Unregister, NEW t \in Threads \ slipped' PROVE patched \notin Uses(t)
<1>1. patched \in Probes /\ references[patched] = 0 /\ AllOut /\ (at[t] = patched => ~Unseen(t))
  BY DEF Unregister, Unpatch, RInv, IInv, Types, Probes
<1>2. Holders(patched) = {}
  <2>1. IsFiniteSet(Holders(patched)) /\ Cardinality(Holders(patched)) <= 0
    BY <1>1 DEF RInv, Counted
  <2>2. Cardinality(Holders(patched)) = 0
    BY <2>1, FS_CardinalityType
  <2> QED
    BY <2>1, <2>2, FS_EmptySet
<1>3. \A i \in DOMAIN frames[t] : frames[t][i] # patched
  <2>1. frames[t] \in Seq(Probes) /\ at[t] \in 0 .. MaxProbes
    BY DEF RInv, IInv, Types, Placed
  <2>2. \A i \in DOMAIN frames[t] : i \in Nat /\ i \in 1 .. Len(Held(t)) /\ Held(t)[i] = frames[t][i]
    BY <2>1 DEF Held
  <2>3. ASSUME NEW i \in DOMAIN frames[t], frames[t][i] = patched PROVE <<t, i>> \in Holders(patched)
    BY <2>2, <2>3 DEF Holders
  <2> QED
    BY <1>2, <2>3
<1>4. at[t] # patched
  <2> SUFFICES ASSUME at[t] = patched PROVE FALSE
    OBVIOUS
  <2>1. pc[t] \in {"new", "app", "gone"}
    BY <1>1, SeenOut DEF AllOut, RInv, IInv
  <2> QED
    BY <1>1, <2>1 DEF RInv, Placed, Probes
<1> QED
  BY <1>3, <1>4, UsedProbes

LEMMA RuntimeUses ==
  ASSUME RInv, Runtime PROVE NoUseAfterFree'
<1>1. slipped \subseteq slipped'
  BY DEF Runtime, Snapshot, Register, Unregister, Unpatch, ScanRundown, ScheduleStop, SuspendBlocks, Unloads,
         UnregisterProbes, ScanPending, EndScan, TestPending, EndWait, CloseObject, EndClose, LookAgain, Unload,
         UnloadBlind, StaysKnown, Test
<1>2. SUFFICES ASSUME NEW t \in Threads \ slipped', NEW p \in Uses(t)' PROVE probe'[p] \in {"on", "off"}
  BY DEF NoUseAfterFree
<1>3. p \in Uses(t)
  BY RuntimePlaces DEF Uses, RInv
<1>4. p \in Probes /\ probe[p] \in {"on", "off"}
  <2>1. probe[p] \in {"on", "off"}
    BY <1>1, <1>3 DEF NoUseAfterFree, RInv
  <2>2. at[t] \in 0 .. MaxProbes /\ frames[t] \in Seq(Probes)
    BY DEF RInv, IInv, Types, Placed
  <2>3. at[t] # 0 => at[t] \in Probes
    BY <2>2 DEF Probes
  <2>4. \A i \in DOMAIN frames[t] : frames[t][i] \in Probes
    BY <2>2
  <2> QED
    BY <1>3, <2>1, <2>3, <2>4, UsedProbes
<1>5. CASE Unregister
  BY <1>3, <1>4, <1>5, UnregisterUses, RuntimePlaces DEF RInv
<1>6. CASE ~Unregister
  BY <1>4, <1>6, RuntimePlaces DEF RInv
<1> QED
  BY <1>5, <1>6

-----------------------------------------------------------------------------
(* Owners.                                                                  *)
Waiting(o) == object[o].list \in {"active", "pending"} /\ ~object[o].gone

LEMMA ThreadOwners ==
  ASSUME RInv, NEW t \in Threads, Runs(t) \/ Program(t), Types' PROVE HasOwner'
<1> USE DEF Goes, StaysKnown, probeVars
<1>1. slipped' \subseteq Threads /\ late' \subseteq Threads /\ last' \subseteq Probes /\ spc' \in Stages
  BY DEF RInv, HasOwner, Runs, InCall, Program, Terminate, Kill, Ends, Begin, Call,
     EnterProcedure, ExemptCall, FindThread, AllocateThread, InsertThread, StoreThread,
     CountReference, PushFrame, WriteRecord, LeaveTrap, PopFrame, QueueRundown, SetExemptionCookie,
     Unwind, RemoveActive, SetCookie
<1>2. faults' \in 0 .. MaxFaults
  <2>1. faults' = faults \/ Fault
    BY DEF Runs, InCall, Program, Terminate, Kill, Ends, Begin, Call,
       EnterProcedure, ExemptCall, FindThread, AllocateThread, InsertThread, StoreThread,
       CountReference, PushFrame, WriteRecord, LeaveTrap, PopFrame, QueueRundown, SetExemptionCookie,
       Unwind, RemoveActive, SetCookie
  <2> QED
    BY <2>1, CallsAssumption DEF RInv, HasOwner, Fault
<1> DEFINE Keeps(p) == \/ mine'[t] = p /\ pc'[t] # "cookie"
                       \/ Waiting(p) /\ ~(mine[t] = p /\ pc[t] # "cookie")
<1>3. ASSUME \A p \in Objects : Waiting(p)' => Keeps(p) PROVE HasOwner'
  <2>1. \A u \in Threads \ {t} : pc'[u] = pc[u] /\ mine'[u] = mine[u]
    <3>1. mine \in [Threads -> Objects \cup {0}] /\ pc \in [Threads -> Control]
      BY DEF RInv, IInv, Types, Control
    <3>2. CASE Runs(t)
      BY <3>1, <3>2 DEF Runs, InCall, EnterProcedure, ExemptCall, FindThread, AllocateThread, InsertThread,
         StoreThread, CountReference, PushFrame, WriteRecord, LeaveTrap, PopFrame, QueueRundown,
         SetExemptionCookie
    <3>3. CASE Program(t)
      BY <3>1, <3>3 DEF Program, Terminate, Kill, Ends, Begin, Call, Unwind, RemoveActive, SetCookie,
         threadVars
    <3> QED
      BY <3>2, <3>3
  <2>2. \A p \in Objects : Waiting(p) => \E u \in Threads : mine[u] = p /\ pc[u] # "cookie"
    BY DEF RInv, HasOwner, Waiting
  <2>3. \A p \in Objects : Waiting(p)' => \E u \in Threads : mine'[u] = p /\ pc'[u] # "cookie"
    BY <1>3, <2>1, <2>2
  <2> QED
    BY <1>1, <1>2, <2>3 DEF HasOwner, Waiting
<1>4. ASSUME mine[t] # 0
      PROVE  mine[t] \in Objects /\ object[mine[t]] \in Thread /\ object \in [Objects -> Thread]
  BY <1>4 DEF RInv, IInv, Types
<1>5. CASE \/ Begin(t) \/ Call(t) \/ EnterProcedure(t) \/ ExemptCall(t) \/ FindThread(t) \/ StoreThread(t)
           \/ LeaveTrap(t) \/ Unwind(t) \/ SetCookie(t)
  <2>1. object' = object /\ mine' = mine /\ pc'[t] # "cookie"
    BY <1>5 DEF Begin, Call, EnterProcedure, ExemptCall, FindThread, StoreThread, LeaveTrap, Unwind, SetCookie,
       RInv, IInv, Types
  <2> QED
    BY <1>3, <2>1 DEF Waiting
<1>6. CASE CountReference(t) \/ PushFrame(t) \/ PopFrame(t) \/ WriteRecord(t)
  <2>1. mine[t] # 0 /\ mine' = mine /\ pc'[t] # "cookie"
    BY <1>6 DEF RInv, IInv, Types, StackNames, CountReference, PushFrame, PopFrame, WriteRecord
  <2>2. \E e \in BOOLEAN : object' = [object EXCEPT ![mine[t]].exempt = e]
    BY <1>6 DEF CountReference, PushFrame, PopFrame, WriteRecord
  <2>3. \A p \in Objects : object'[p].list = object[p].list /\ object'[p].gone = object[p].gone
    BY <1>4, <2>1, <2>2, Exempts DEF RInv
  <2> QED
    BY <1>3, <2>1, <2>3 DEF Waiting
<1>7. CASE AllocateThread(t)
  <2>1. PICK failed \in BOOLEAN, o \in Objects : object' = [object EXCEPT ![o] =
          [NewObject EXCEPT !.list = "none", !.exempt = failed, !.mapped = ~failed]]
    BY <1>7 DEF AllocateThread
  <2>2. mine[t] = 0
    BY <1>7 DEF RInv, IInv, StackNames, AllocateThread
  <2>3. object'[o].list = "none" /\ \A p \in Objects \ {o} : object'[p] = object[p] /\ p # 0
    BY <2>1 DEF RInv, IInv, Types, Objects, NewObject
  <2> QED
    BY <1>3, <2>2, <2>3 DEF Waiting
<1>8. CASE InsertThread(t)
  <2>1. mine[t] # 0 /\ mine' = mine /\ pc'[t] = "store"
    BY <1>8 DEF RInv, IInv, Types, StackNames, InsertThread
  <2>2. \A p \in Objects \ {mine[t]} : object'[p] = object[p]
    BY <1>4, <1>8, <2>1 DEF InsertThread
  <2> QED
    BY <1>3, <2>1, <2>2 DEF Waiting
<1>9. CASE RemoveActive(t)
  <2>1. mine[t] # 0
    BY <1>9 DEF RInv, IInv, StackNames, RemoveActive
  <2>2. object' = [object EXCEPT ![mine[t]] = [object[mine[t]] EXCEPT !.exempt = TRUE, !.list = "none"]]
    BY <1>4, <1>9, <2>1 DEF RemoveActive
  <2>3. object'[mine[t]].list = "none" /\ \A p \in Objects \ {mine[t]} : object'[p] = object[p]
    BY <1>4, <2>1, <2>2 DEF Thread
  <2> QED
    BY <1>3, <2>3 DEF Waiting
<1>10. ASSUME QueueRundown(t) \/ Ends(t), mine[t] # 0 PROVE HasOwner'
  <2> DEFINE o == mine[t]
  <2>1. \A p \in Objects \ {o} : object'[p] = object[p]
    BY <1>4, <1>10 DEF QueueRundown, Ends
  <2>2. object'[o].list \notin {"active", "pending"} \/ object'[o].gone
    <3>1. CASE QueueRundown(t) /\ frames[t] = << >>
      BY <1>4, <1>10, <3>1 DEF QueueRundown, Pooled, NewObject
    <3>2. CASE QueueRundown(t) /\ frames[t] # << >>
      BY <1>4, <1>10, <3>2, Moves DEF QueueRundown, Lists, RInv
    <3>3. CASE Ends(t)
      <4>1. object' = [object EXCEPT ![o] = [object[o] EXCEPT !.gone = TRUE]]
        BY <1>10, <3>3 DEF Ends
      <4> QED
        BY <1>4, <1>10, <4>1 DEF Thread
    <3> QED
      BY <1>10, <3>1, <3>2, <3>3
  <2> QED
    BY <1>3, <2>1, <2>2 DEF Waiting
<1>11. ASSUME SetExemptionCookie(t) \/ (Ends(t) /\ mine[t] = 0) PROVE HasOwner'
  <2>1. object' = object /\ (pc[t] = "cookie" \/ mine[t] = 0)
    BY <1>11 DEF SetExemptionCookie, Ends
  <2> QED
    BY <1>3, <2>1 DEF Waiting, Objects
<1>12. QueueRundown(t) => mine[t] # 0
  BY DEF QueueRundown, RInv, IInv, StackNames
<1> QED
  BY <1>5, <1>6, <1>7, <1>8, <1>9, <1>10, <1>11, <1>12 DEF Runs, InCall, Program, Terminate, Kill

LEMMA RuntimeOwners == ASSUME RInv, Runtime PROVE HasOwner'
<1>1. mine' = mine /\ pc' = pc
  BY DEF Runtime, Snapshot, Register, Unregister, Unpatch, ScanRundown, ScheduleStop, SuspendBlocks, Unloads,
         UnregisterProbes, ScanPending, EndScan, TestPending, EndWait, CloseObject, EndClose, LookAgain, Unload,
         UnloadBlind, StaysKnown, threadVars
<1>2. object \in [Objects -> Thread]
  BY DEF RInv, IInv, Types
<1>3. ASSUME NEW o \in Objects, Waiting(o), Test(o)
      PROVE  /\ slipped' \subseteq Threads /\ (faults' = faults \/ Fault)
             /\ \A p \in Objects : Waiting(p)' => Waiting(p)
  <2>1. Owner(o) \in Threads
    <3>1. PICK u \in Threads : mine[u] = o /\ pc[u] # "cookie"
      BY <1>3 DEF RInv, HasOwner, Waiting
    <3> QED
      BY <3>1, Owners DEF RInv
  <2>2. \E l \in Lists : object' = [object EXCEPT ![o].list = l]
    BY <1>3 DEF Test, Lists
  <2>3. (\A p \in Objects \ {o} : object'[p] = object[p]) /\ object'[o].gone = object[o].gone
    BY <2>2, Moves DEF RInv
  <2> QED
    BY <1>3, <2>1, <2>3 DEF Waiting, Test, RInv, HasOwner
<1>4. ASSUME NEW o \in Objects, object'[o].list \notin {"active", "pending"},
             \A p \in Objects \ {o} : object'[p] = object[p]
      PROVE  \A p \in Objects : Waiting(p)' => Waiting(p)
  BY <1>4 DEF Waiting
<1> DEFINE Good == /\ \A p \in Objects : Waiting(p)' => Waiting(p)
                   /\ slipped' \subseteq Threads /\ (faults' = faults \/ Fault)
<1>5. Good
  <2>1. CASE \/ Snapshot \/ Register \/ Unregister \/ ScheduleStop \/ SuspendBlocks \/ UnregisterProbes
             \/ EndScan \/ EndWait \/ EndClose \/ LookAgain \/ Unload \/ UnloadBlind
    <3>1. /\ object' = object /\ \A t \in slipped' : t \in slipped \/ t \in late \/ t \in Threads
          /\ faults' = faults \/ Fault
      BY <2>1 DEF Snapshot, Register, Unregister, Unpatch, ScheduleStop, SuspendBlocks, UnregisterProbes,
         EndScan, EndWait, EndClose, LookAgain, Unload, UnloadBlind, Torn
    <3> QED
      BY <3>1 DEF Waiting, RInv, HasOwner
  <2>2. CASE ScanRundown
    <3>1. PICK o \in Objects : object' = [object EXCEPT ![o] = Pooled]
      BY <2>2 DEF ScanRundown
    <3>2. object'[o].list \notin {"active", "pending"} /\ \A p \in Objects \ {o} : object'[p] = object[p]
      BY <1>2, <3>1 DEF Pooled, NewObject
    <3> QED
      BY <1>4, <2>2, <3>2 DEF ScanRundown, StaysKnown, RInv, HasOwner
  <2>3. CASE ScanPending
    <3>1. PICK o \in Objects :
            /\ object[o].list = "active"
            /\ IF object[o].gone
               THEN /\ object' = [object EXCEPT ![o].mapped = FALSE, ![o].list = "closed"]
                    /\ UNCHANGED <<slipped, faults>>
               ELSE Test(o)
      BY <2>3 DEF ScanPending
    <3>2. CASE object[o].gone
      <4>1. object' = [object EXCEPT ![o] = [object[o] EXCEPT !.mapped = FALSE, !.list = "closed"]]
        BY <1>2, <3>1, <3>2
      <4>2. object'[o].list \notin {"active", "pending"} /\ \A p \in Objects \ {o} : object'[p] = object[p]
        BY <1>2, <4>1 DEF Thread
      <4> QED
        BY <1>4, <3>1, <3>2, <4>2 DEF RInv, HasOwner
    <3>3. CASE ~object[o].gone
      BY <1>3, <3>1, <3>3 DEF Waiting
    <3> QED
      BY <3>2, <3>3
  <2>4. CASE TestPending
    <3>1. PICK o \in Objects :
            /\ object[o].list = "pending"
            /\ IF object[o].gone
               THEN object' = [object EXCEPT ![o].list = "complete"] /\ UNCHANGED <<slipped, faults>>
               ELSE Test(o)
      BY <2>4 DEF TestPending
    <3>2. CASE object[o].gone
      <4>1. object'[o].list \notin {"active", "pending"} /\ \A p \in Objects \ {o} : object'[p] = object[p]
        BY <3>1, <3>2, Moves DEF Lists, RInv
      <4> QED
        BY <1>4, <3>1, <3>2, <4>1 DEF RInv, HasOwner
    <3>3. CASE ~object[o].gone
      BY <1>3, <3>1, <3>3 DEF Waiting
    <3> QED
      BY <3>2, <3>3
  <2>5. CASE CloseObject
    <3>1. PICK o \in Objects : object' = [object EXCEPT ![o].mapped = FALSE, ![o].list = "closed"]
      BY <2>5 DEF CloseObject
    <3>2. object' = [object EXCEPT ![o] = [object[o] EXCEPT !.mapped = FALSE, !.list = "closed"]]
      BY <1>2, <3>1
    <3>3. object'[o].list \notin {"active", "pending"} /\ \A p \in Objects \ {o} : object'[p] = object[p]
      BY <1>2, <3>2 DEF Thread
    <3> QED
      BY <1>4, <2>5, <3>3 DEF CloseObject, RInv, HasOwner
  <2> QED
    BY <2>1, <2>2, <2>3, <2>4, <2>5 DEF Runtime, Unloads
<1>6. faults' \in 0 .. MaxFaults
  BY <1>5, CallsAssumption DEF RInv, HasOwner, Fault
<1>7. spc' \in Stages /\ late' \subseteq Threads /\ last' \subseteq Probes
  BY DEF Runtime, Snapshot, Register, Unregister, Unpatch, ScanRundown, ScheduleStop, SuspendBlocks, Unloads,
         UnregisterProbes, ScanPending, EndScan, TestPending, EndWait, CloseObject, EndClose, LookAgain, Unload,
         UnloadBlind, StaysKnown, RInv, HasOwner, Stages, probeVars
<1> QED
  BY <1>1, <1>5, <1>6, <1>7 DEF RInv, HasOwner, Waiting
-----------------------------------------------------------------------------
LEMMA InitRInv == Init => RInv
<1> SUFFICES ASSUME Init PROVE RInv
  OBVIOUS
<1>1. Placed
  BY DEF Init, Placed
<1>2. HasOwner
  BY CallsAssumption DEF Init, HasOwner, NewObject, Stages
<1>3. Counted
  <2>1. \A p : Holders(p) = {}
    BY DEF Init, Holders, Held
  <2> QED
    <3>1. \A p \in Probes : IsFiniteSet(Holders(p)) /\ Cardinality(Holders(p)) = 0
      BY <2>1, FS_EmptySet
    <3> QED
      BY <3>1 DEF Init, Counted
<1>4. NoUseAfterFree
  BY DEF Init, NoUseAfterFree, Uses, ToSet
<1> QED
  BY <1>1, <1>2, <1>3, <1>4, InitIInv DEF RInv

LEMMA NextRInv == RInv /\ [Next]_vars => RInv'
<1> SUFFICES ASSUME RInv, [Next]_vars PROVE RInv'
  OBVIOUS
<1>1. IInv'
  BY NextIInv DEF RInv
<1>2. ASSUME NEW t \in Threads, Runs(t) \/ Program(t) PROVE RInv'
  BY <1>1, <1>2, ThreadPlaces, ThreadCounted, ThreadUses, ThreadOwners DEF RInv, IInv
<1>3. CASE Runtime
  BY <1>1, <1>3, RuntimePlaces, RuntimeCounted, RuntimeUses, RuntimeOwners DEF RInv
<1>4. CASE UNCHANGED vars
  <2> USE <1>4 DEF vars, probeVars, threadVars
  <2>1. Placed' /\ HasOwner' /\ NoUseAfterFree'
    BY DEF RInv, Placed, HasOwner, NoUseAfterFree, Uses
  <2>2. Counted'
    BY HeldFewer DEF RInv, Held
  <2> QED
    BY <1>1, <2>1, <2>2 DEF RInv
<1> QED
  BY <1>2, <1>3, <1>4 DEF Next, Runtime

LEMMA InductiveRInv == Spec => []RInv
BY InitRInv, NextRInv, PTL DEF Spec

\* Every value of the model has its type; a reference count is never negative.
THEOREM CallsTypes == Spec => []TypeOK
<1>1. RInv => TypeOK
  <2> SUFFICES ASSUME RInv PROVE TypeOK
    OBVIOUS
  <2>1. /\ object \in [Objects -> [list : {"unused", "none", "active", "rundown", "pool",
                                           "pending", "complete", "closed"},
                                   exempt : BOOLEAN, mapped : BOOLEAN, gone : BOOLEAN]]
        /\ mine \in [Threads -> 0 .. Cardinality(Threads)]
    <3>1. Cardinality(Threads) \in Nat
      BY CallsAssumption, FS_CardinalityType
    <3> QED
      BY <3>1 DEF RInv, IInv, Types, Thread, Lists, Objects
  <2>2. spc \in {"run", "stopping", "scan", "wait", "close", "quiesce", "again",
                "unloaded", "blind", "blocked"}
    BY DEF RInv, HasOwner, Stages
  <2> QED
    BY <2>1, <2>2 DEF TypeOK, RInv, IInv, Types, Placed, HasOwner, Counted
<1> QED
  BY <1>1, InductiveRInv, PTL

\* A probe and its trap are freed only when no thread that could be seen is in
\* the trap or in a call of it, and no thread will return through it.
THEOREM ProbesInUseStay == Spec => []NoUseAfterFree
<1>1. RInv => NoUseAfterFree
  BY DEF RInv
<1> QED
  BY <1>1, InductiveRInv, PTL
================================================================================
