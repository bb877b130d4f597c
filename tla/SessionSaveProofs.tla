---------------------------- MODULE SessionSaveProofs ----------------------------
(***************************************************************************)
(* Saving records, for every log, every size of records, copy units and     *)
(* rounds, and every number of records and faults.  Three arguments, one    *)
(* for each question.  What is copied: the file pointers are where the next *)
(* record is and goes, since it was sought, or since records in the order   *)
(* of their index lie end to end, as long as no call failed unnoticed.      *)
(* What is left behind: where the work item is, or will be when its call    *)
(* returns, says what there is of the file and of the barrier.  Who frees   *)
(* the context: the user's cancelling is in the state field until the       *)
(* callback sees it, and a work item that will call no more has seen it,    *)
(* or has left a dialog that says so.                                       *)
(***************************************************************************)
EXTENDS SessionSave, SequenceTheorems, TLAPS

Calling == pc \in {"enter", "send", "check"}

\* Where the work item is, or will be when its call returns.
At == IF Calling THEN note.back ELSE pc

\* The work item will call no more.
Quits ==
  \/ pc \in {"ended", "failed"}
  \/ pc \in {"recordtold", "roundtold", "resttold"} /\ cancel

Phases ==
  /\ Calling => note.back # "open"
  /\ At = "open" => file = "absent" /\ ~barrier /\ next = 1
  /\ At \in {"record", "recordtold"} => file = "written"
  /\ At \in {"record", "recordtold"} => (barrier <=> live /\ kind \in DtlKinds)
  /\ At \in {"failed", "index", "roundtold", "resttold", "header"} =>
       file = "written" /\ ~barrier
  /\ At \in {"index", "roundtold", "resttold", "header"} => next = Count + 1
  /\ At = "ended" => file # "written" /\ (barrier => kind = "dtl" /\ file = "absent")
  /\ file = "complete" => At = "ended" /\ next = Count + 1

Calls ==
  /\ Calling /\ note.abort => note.back \in {"ended", "failed"} /\ faults > 0
  /\ Calling /\ note.back \in {"ended", "failed"} => note.full \/ note.abort
  /\ At = "failed" => faults > 0
  /\ At \in {"index", "roundtold", "resttold"} => kind = "dtl"
  /\ At = "roundtold" /\ note.full => FullIndex

Excepted == FullIndex \/ (kind = "csv" /\ Count % CsvRound = 0)

Announced ==
  ~Excepted /\ lag = 0 =>
    /\ Calling /\ note.full /\ ~note.abort => note.back = "ended" /\ file = "complete"
    /\ told => At = "ended" /\ file = "complete"

Leaks == (kind = "csvfiltered" /\ file = "complete") \/ Unopened

Owner ==
  /\ pc = "check" /\ note.full /\ ~note.abort => dialog = "closed"
  /\ frees = 0 /\ dialog = "closed" =>
       state = "UserAborted" \/ (pc = "check" /\ note.full /\ ~note.abort)
  /\ frees = 0 /\ dialog = "open" => state # "UserAborted"
  /\ frees = 0 /\ pc = "check" /\ note.abort => state \in {"UserAborted", "MspAborted"}
  /\ frees = 0 /\ Quits => Leaks \/ (dialog = "open" /\ state = "MspAborted")

Freed ==
  faults = 0 /\ ~FullIndex =>
    /\ ~touched /\ frees <= 1 /\ state # "MspAborted"
    /\ frees = 1 => dialog = "closed" /\ Quits /\ ~(pc = "roundtold" /\ note.full)

Ordered == kind \in Sequential => InOrder(log)

\* What was copied before a call failed unnoticed.
Copied ==
  Ordered =>
    \A i \in 1 .. next - 1 : i <= intact =>
      LET r == log[order[i]]
      IN  /\ entries[i].size = r.size
          /\ [at |-> entries[i].start, from |-> r.start, size |-> r.size] \in pieces
          /\ IF kind = "dtl" THEN entries[i].start = r.start ELSE EndOf(entries[i]) <= to

Pointers ==
  /\ faults = 0 => intact = Count
  /\ next - 1 <= intact => lag = 0
  /\ kind \in Sequential /\ InOrder(log) /\ next - 1 <= intact =>
       /\ from = IF next = 1 THEN 0 ELSE EndOf(log[next - 1])
       /\ kind = "dtl" => to = from

\* The types, in groups of the variables that steps change together.
Fixed == kind \in Kinds /\ live \in BOOLEAN /\ log \in Logs /\ order \in Orders(kind)

Control ==
  /\ pc \in Labels
  /\ note \in [full : BOOLEAN, abort : BOOLEAN, back : Backs] /\ cancel \in BOOLEAN
  /\ file \in {"absent", "written", "complete"} /\ barrier \in BOOLEAN
  /\ faults \in 0 .. MaxFaults

Written ==
  /\ next \in 1 .. Count + 1 /\ from \in Nat /\ to \in Nat
  /\ pieces \subseteq [at : Nat, from : Nat, size : RecordSizes]
  /\ entries \in Seq(Extents) /\ Len(entries) = next - 1
  /\ round \in 0 .. IndexLength \div CopyUnit
  /\ lag \in 0 .. next - 1 /\ intact \in 0 .. Count

Context ==
  /\ dialog \in {"open", "closed"} /\ state \in States
  /\ told \in BOOLEAN /\ frees \in Nat /\ touched \in BOOLEAN

Types == Fixed /\ Control /\ Written /\ Context

IInv ==
  /\ Types
  /\ Copied /\ Pointers
  /\ Phases /\ Calls /\ Announced
  /\ Owner /\ Freed

LEMMA TypesAreTypeOK == Types <=> TypeOK
  BY DEF Types, Fixed, Control, Written, Context, TypeOK

--------------------------------------------------------------------------------
(***************************************************************************)
(* The constants, the log and the records to be saved.                      *)
(***************************************************************************)
LEMMA Sizes ==
  /\ DataMapUnit \in Nat \ {0} /\ RecordSizes \subseteq Nat \ {0}
  /\ IndexMapUnit \in Nat \ {0} /\ CopyUnit \in Nat \ {0} /\ CsvRound \in Nat \ {0}
  /\ MaxRecords \in Nat \ {0} /\ MaxFaults \in Nat
  BY SaveAssumption

LEMMA RoundsUp ==
  ASSUME NEW x \in Nat, NEW unit \in Nat \ {0}
  PROVE  RoundUp(x, unit) \in Nat /\ x <= RoundUp(x, unit)
<1> DEFINE y == x + unit - 1  k == y \div unit
<1>1. k \in Nat /\ y \in Nat
  OBVIOUS
<1>2. y % unit \in 0 .. unit - 1
  BY <1>1
<1>3. y = unit * k + (y % unit)
  BY <1>1
<1>4. unit * k = k * unit /\ k * unit \in Nat
  BY <1>1
<1>5. RoundUp(x, unit) = k * unit
  BY DEF RoundUp, RoundDown
<1>6. y = x + unit - 1
  OBVIOUS
<1> HIDE DEF y, k
<1> QED
  BY <1>1, <1>2, <1>3, <1>4, <1>5, <1>6

\* A whole number of units leaves no rest.
LEMMA NoRest ==
  ASSUME NEW m \in Nat, NEW unit \in Nat \ {0}
  PROVE  (m * unit) % unit = 0
<1> DEFINE x == m * unit  k == x \div unit  r == x % unit
<1>1. x \in Nat /\ k \in Nat
  OBVIOUS
<1>2. r \in 0 .. unit - 1 /\ x = unit * k + r
  BY <1>1
<1>3. x = unit * m
  OBVIOUS
<1> SUFFICES r = 0
  OBVIOUS
<1> HIDE DEF x, k, r
<1>4. CASE m = k
  BY <1>1, <1>2, <1>3, <1>4
<1>5. CASE m > k
  <2>1. PICK d \in Nat : m = k + 1 + d
    <3>1. m - k - 1 \in Nat /\ m = k + 1 + (m - k - 1)
      BY <1>1, <1>5
    <3> QED
      BY <3>1
  <2>2. unit * m = unit * k + unit + unit * d /\ unit * d \in Nat
    BY <1>1, <2>1
  <2> QED
    BY <1>1, <1>2, <1>3, <2>2
<1>6. CASE m < k
  <2>1. PICK d \in Nat : k = m + 1 + d
    <3>1. k - m - 1 \in Nat /\ k = m + 1 + (k - m - 1)
      BY <1>1, <1>6
    <3> QED
      BY <3>1
  <2>2. unit * k = unit * m + unit + unit * d /\ unit * d \in Nat /\ unit * m \in Nat
    BY <1>1, <2>1
  <2> QED
    BY <1>1, <1>2, <1>3, <2>2
<1> QED
  BY <1>1, <1>4, <1>5, <1>6

LEMMA Saved ==
  ASSUME Fixed
  PROVE  /\ Count \in 1 .. MaxRecords
         /\ order \in [1 .. Count -> 1 .. MaxRecords]
         /\ kind \in Sequential => \A i \in 1 .. Count : order[i] = i
<1>1. PICK n \in 1 .. MaxRecords :
        /\ order \in [1 .. n -> 1 .. MaxRecords]
        /\ kind \in Sequential => order = [i \in 1 .. n |-> i]
  BY Sizes DEF Fixed, Orders
<1>2. n \in Nat /\ Len(order) = n
  BY <1>1, Sizes, LenProperties
<1> QED
  BY <1>1, <1>2 DEF Count

LEMMA LogExtents ==
  ASSUME Fixed, NEW n \in 1 .. MaxRecords
  PROVE  /\ log[n] \in Extents /\ log[n].start \in Nat
         /\ log[n].size \in RecordSizes /\ log[n].size \in Nat \ {0}
         /\ EndOf(log[n]) \in Nat /\ log[n].start < EndOf(log[n])
<1> DEFINE top == MaxRecords * DataMapUnit
<1>1. log[n] \in [start : 0 .. top, size : RecordSizes]
  BY DEF Fixed, Logs
<1> HIDE DEF top
<1>2. log[n].start \in Nat /\ log[n].size \in RecordSizes /\ log[n].size \in Nat \ {0}
  <2>1. log[n].start \in 0 .. top /\ log[n].size \in RecordSizes
    BY <1>1
  <2>2. log[n].start \in Nat
    BY <2>1
  <2>3. log[n].size \in Nat \ {0}
    BY <2>1, Sizes
  <2> QED
    BY <2>1, <2>2, <2>3
<1>3. log[n] \in Extents
  BY <1>1, <1>2 DEF Extents
<1> QED
  BY <1>2, <1>3 DEF EndOf

LEMMA SavedExtents ==
  ASSUME Fixed, NEW i \in 1 .. Count
  PROVE  /\ order[i] \in 1 .. MaxRecords
         /\ log[order[i]] \in Extents /\ log[order[i]].start \in Nat
         /\ log[order[i]].size \in RecordSizes /\ log[order[i]].size \in Nat \ {0}
         /\ EndOf(log[order[i]]) \in Nat
  BY Saved, LogExtents

\* Records that fill the file in the order of their index lie end to end.
LEMMA EndToEnd ==
  ASSUME Fixed, InOrder(log)
  PROVE  /\ log[1].start = 0
         /\ \A i \in 1 .. MaxRecords - 1 : log[i + 1].start = EndOf(log[i])
<1>1. /\ DOMAIN log = 1 .. MaxRecords
      /\ \A i \in DOMAIN log : log[i].start = 0 \/ \E j \in DOMAIN log : EndOf(log[j]) = log[i].start
      /\ \A i, j \in DOMAIN log : i < j => EndOf(log[i]) <= log[j].start
  BY DEF Fixed, Logs, FillsFile, InOrder
<1>2. \A i \in 1 .. MaxRecords :
        log[i].start \in Nat /\ EndOf(log[i]) \in Nat /\ log[i].start < EndOf(log[i])
  BY LogExtents
<1>3. log[1].start = 0
  <2> SUFFICES ASSUME log[1].start # 0 PROVE FALSE
    OBVIOUS
  <2>1. 1 \in 1 .. MaxRecords
    BY Sizes
  <2>2. PICK j \in 1 .. MaxRecords : EndOf(log[j]) = log[1].start
    BY <1>1, <2>1
  <2>3. CASE j = 1
    BY <1>2, <2>1, <2>2, <2>3
  <2>4. CASE j # 1
    <3>1. 1 < j
      BY <2>4, Sizes
    <3> QED
      BY <1>1, <1>2, <2>1, <2>2, <3>1
  <2> QED
    BY <2>3, <2>4
<1>4. ASSUME NEW i \in 1 .. MaxRecords - 1
      PROVE  log[i + 1].start = EndOf(log[i])
  <2>1. i \in 1 .. MaxRecords /\ i + 1 \in 1 .. MaxRecords /\ i < i + 1
    BY Sizes
  <2>2. EndOf(log[i]) <= log[i + 1].start
    BY <1>1, <2>1
  <2>3. PICK j \in 1 .. MaxRecords : EndOf(log[j]) = log[i + 1].start
    BY <1>1, <1>2, <2>1, <2>2
  <2>4. CASE j = i
    BY <2>3, <2>4
  <2>5. CASE j < i
    <3>1. EndOf(log[j]) <= log[i].start
      BY <1>1, <2>1, <2>5
    <3> QED
      BY <1>2, <2>1, <2>2, <2>3, <3>1
  <2>6. CASE j > i
    <3>1. j = i + 1 \/ EndOf(log[i + 1]) <= log[j].start
      BY <1>1, <2>1, <2>6
    <3> QED
      BY <1>2, <2>1, <2>3, <3>1
  <2> QED
    BY <2>4, <2>5, <2>6, Sizes
<1> QED
  BY <1>3, <1>4

--------------------------------------------------------------------------------
(***************************************************************************)
(* What each step leaves alone.                                             *)
(***************************************************************************)
LEMMA NextCases ==
  ASSUME [Next]_vars
  PROVE  \/ EnterCallback \/ SendMessage  \/ LeaveCallback
         \/ OpenFiles     \/ OpenFails    \/ WriteRecord   \/ WriteFails \/ Failed
         \/ RecordTold    \/ RecordsDone  \/ CopyIndexRound \/ RoundTold
         \/ CopyIndexRest \/ RestTold     \/ WriteHeader   \/ UserCancels
         \/ UNCHANGED vars
  BY DEF Next, WorkItem

LEMMA FixedKept ==
  ASSUME [Next]_vars
  PROVE  UNCHANGED dataVars
<1>1. CASE EnterCallback \/ SendMessage \/ LeaveCallback
  BY <1>1 DEF EnterCallback, SendMessage, LeaveCallback
<1>2. CASE OpenFiles \/ OpenFails \/ WriteRecord \/ WriteFails \/ Failed
  BY <1>2 DEF OpenFiles, OpenFails, WriteRecord, WriteFails, Failed
<1>3. CASE RecordTold \/ RecordsDone \/ CopyIndexRound \/ RoundTold
  BY <1>3 DEF RecordTold, RecordsDone, CopyIndexRound, RoundTold
<1>4. CASE CopyIndexRest \/ RestTold \/ WriteHeader \/ UserCancels
  BY <1>4 DEF CopyIndexRest, RestTold, WriteHeader, UserCancels
<1>5. CASE UNCHANGED vars
  BY <1>5 DEF vars
<1> QED
  BY NextCases, <1>1, <1>2, <1>3, <1>4, <1>5

\* Constant are also what is computed of the log and the order.
LEMMA DerivedKept ==
  ASSUME UNCHANGED dataVars
  PROVE  /\ kind' = kind /\ live' = live /\ log' = log /\ order' = order
         /\ Count' = Count /\ IndexLength' = IndexLength
         /\ FullIndex' = FullIndex /\ Excepted' = Excepted
<1>1. kind' = kind /\ live' = live /\ log' = log /\ order' = order
  BY DEF dataVars
<1>2. Count' = Count
  BY <1>1 DEF Count
<1>3. IndexLength' = IndexLength
  BY <1>2 DEF IndexLength
<1>4. FullIndex' = FullIndex
  BY <1>1, <1>3 DEF FullIndex
<1> QED
  BY <1>1, <1>2, <1>3, <1>4 DEF Excepted

LEMMA WrittenKept ==
  ASSUME [Next]_vars
  PROVE  \/ WriteRecord \/ CopyIndexRound \/ CopyIndexRest \/ WriteHeader
         \/ UNCHANGED fileVars
<1>1. CASE EnterCallback \/ SendMessage \/ LeaveCallback
  BY <1>1 DEF EnterCallback, SendMessage, LeaveCallback
<1>2. CASE OpenFiles \/ OpenFails \/ WriteFails \/ Failed
  BY <1>2 DEF OpenFiles, OpenFails, WriteFails, Failed
<1>3. CASE RecordTold \/ RecordsDone \/ RoundTold
  BY <1>3 DEF RecordTold, RecordsDone, RoundTold
<1>4. CASE RestTold \/ UserCancels
  BY <1>4 DEF RestTold, UserCancels
<1>5. CASE UNCHANGED vars
  BY <1>5 DEF vars
<1> QED
  BY NextCases, <1>1, <1>2, <1>3, <1>4, <1>5

\* The context changes in the callback and by the user, and in no other step.
LEMMA ContextKept ==
  ASSUME [Next]_vars
  PROVE  \/ EnterCallback \/ SendMessage \/ LeaveCallback \/ UserCancels
         \/ UNCHANGED dialogVars
<1>1. CASE OpenFiles \/ OpenFails \/ WriteRecord \/ WriteFails \/ Failed
  BY <1>1 DEF OpenFiles, OpenFails, WriteRecord, WriteFails, Failed
<1>2. CASE RecordTold \/ RecordsDone \/ CopyIndexRound \/ RoundTold
  BY <1>2 DEF RecordTold, RecordsDone, CopyIndexRound, RoundTold
<1>3. CASE CopyIndexRest \/ RestTold \/ WriteHeader
  BY <1>3 DEF CopyIndexRest, RestTold, WriteHeader
<1>4. CASE UNCHANGED vars
  BY <1>4 DEF vars
<1> QED
  BY NextCases, <1>1, <1>2, <1>3, <1>4

--------------------------------------------------------------------------------
(***************************************************************************)
(* Types.                                                                   *)
(***************************************************************************)
LEMMA ControlStep ==
  ASSUME Control, [Next]_vars
  PROVE  Control'
<1> USE Sizes
<1>1. /\ Backs \subseteq Labels
      /\ \A full, abort \in BOOLEAN : \A back \in Backs : Callback(full, abort, back) =>
           pc' \in Labels /\ note' \in [full : BOOLEAN, abort : BOOLEAN, back : Backs]
  BY DEF Backs, Labels, Callback
<1>2. \A result \in BOOLEAN : CallbackReturns(result) => pc' \in Labels /\ cancel' \in BOOLEAN
  BY <1>1 DEF Control, CallbackReturns
<1>3. Fault => faults' \in 0 .. MaxFaults
  BY DEF Control, Fault
<1>4. CASE EnterCallback
  BY <1>2, <1>4 DEF Control, EnterCallback, Labels
<1>5. CASE SendMessage
  BY <1>5 DEF Control, SendMessage, Labels
<1>6. CASE LeaveCallback
  <2>1. note.abort \in BOOLEAN
    BY DEF Control
  <2> QED
    BY <1>2, <1>6, <2>1 DEF Control, LeaveCallback
<1>7. CASE OpenFiles
  <2>1. barrier' \in BOOLEAN
    BY <1>7, Zenon DEF OpenFiles
  <2> QED
    BY <1>7, <2>1 DEF Control, OpenFiles, Labels
<1>8. CASE OpenFails
  BY <1>1, <1>3, <1>8 DEF Control, OpenFails, Labels, Backs
<1>0. ASSUME NEW first PROVE Unnoticed(first) => faults' \in 0 .. MaxFaults
  BY <1>3 DEF Unnoticed
<1>9. CASE WriteRecord
  <2>0. UNCHANGED <<cancel, file, barrier>> /\ faults' \in 0 .. MaxFaults
    BY <1>0, <1>9 DEF Control, WriteRecord, CopyRecord, SpoilRecord
  <2>1. CASE \E full \in Full : Callback(full, FALSE, "recordtold")
    <3>1. \A full \in Full : full \in BOOLEAN
      BY Zenon DEF Full
    <3>2. pc' \in Labels /\ note' \in [full : BOOLEAN, abort : BOOLEAN, back : Backs]
      BY <1>1, <2>1, <3>1 DEF Backs
    <3> QED
      BY <2>0, <3>2 DEF Control
  <2>2. CASE UNCHANGED <<pc, note>>
    BY <2>0, <2>2 DEF Control
  <2> QED
    BY <1>9, <2>1, <2>2 DEF WriteRecord
<1>10. CASE WriteFails
  <2>1. PICK full \in BOOLEAN : Callback(full, TRUE, "failed")
    BY <1>10 DEF WriteFails
  <2>2. pc' \in Labels /\ note' \in [full : BOOLEAN, abort : BOOLEAN, back : Backs]
    BY <1>1, <2>1 DEF Backs
  <2> QED
    BY <1>3, <1>10, <2>2 DEF Control, WriteFails
<1>11. CASE Failed
  BY <1>11 DEF Control, Failed, Labels
<1>12. CASE RecordTold
  <2>1. barrier' \in BOOLEAN
    BY <1>12, Zenon DEF Control, RecordTold
  <2> QED
    BY <1>12, <2>1 DEF Control, RecordTold, Labels
<1>13. CASE RecordsDone
  BY <1>13 DEF Control, RecordsDone, Labels
<1>14. CASE CopyIndexRound
  <2>1. ((round + 1) * CopyUnit = IndexLength) \in BOOLEAN /\ "roundtold" \in Backs
    BY Zenon DEF Backs
  <2>2. pc' \in Labels /\ note' \in [full : BOOLEAN, abort : BOOLEAN, back : Backs]
    BY <1>1, <1>14, <2>1, Zenon DEF CopyIndexRound
  <2> QED
    BY <1>0, <1>14, <2>2 DEF Control, CopyIndexRound, CopyEntries, SpoilIndex
<1>15. CASE RoundTold
  BY <1>15 DEF Control, RoundTold, Labels
<1>16. CASE CopyIndexRest
  BY <1>0, <1>1, <1>16 DEF Control, CopyIndexRest, CopyEntries, SpoilIndex, Backs
<1>17. CASE RestTold
  BY <1>17 DEF Control, RestTold, Labels
<1>18. CASE WriteHeader
  BY <1>0, <1>1, <1>18 DEF Control, WriteHeader, SpoilIndex, Labels, Backs
<1>19. CASE UserCancels
  BY <1>19 DEF Control, UserCancels
<1>20. CASE UNCHANGED vars
  BY <1>20 DEF Control, vars
<1> QED
  BY NextCases, <1>4, <1>5, <1>6, <1>7, <1>8, <1>9, <1>10, <1>11, <1>12, <1>13, <1>14,
     <1>15, <1>16, <1>17, <1>18, <1>19, <1>20

\* A turn of the loop: whatever is read and written, the pointers and pieces have
\* their types and an entry is added; a record that is counted as intact was copied
\* from where the file's pointer was, in its own length.
LEMMA WriteRecordEffect ==
  ASSUME Fixed, Control, Written, WriteRecord
  PROVE  LET r == log[order[next]]
             e == [start |-> IF kind = "dtl" THEN r.start ELSE to, size |-> r.size]
             l == log[order[next - lag]]
         IN  /\ next \in 1 .. Count /\ next' = next + 1 /\ round' = round
             /\ r.start \in Nat /\ r.size \in Nat \ {0}
             /\ e \in Extents /\ entries' = Append(entries, e)
             /\ from' \in Nat /\ to' \in Nat /\ to <= to' /\ Place \in Nat
             /\ pieces \subseteq pieces'
             /\ pieces' \subseteq [at : Nat, from : Nat, size : RecordSizes]
             /\ lag' \in 0 .. next /\ intact' \in 0 .. intact
             /\ faults' = 0 => intact' = intact
             /\ next <= intact' =>
                  /\ from' = Place + l.size /\ to' = to + l.size /\ lag' = lag
                  /\ pieces' = pieces \cup {[at |-> to, from |-> Place, size |-> l.size]}
<1> DEFINE r == log[order[next]]
           e == [start |-> IF kind = "dtl" THEN r.start ELSE to, size |-> r.size]
<1>1. Count \in Nat /\ next \in 1 .. Count /\ lag \in 0 .. next - 1 /\ intact \in 0 .. Count
  BY Saved, Sizes DEF Written, WriteRecord
<1>2. r.start \in Nat /\ r.size \in Nat \ {0} /\ Place \in Nat /\ to \in Nat /\ from \in Nat
  BY <1>1, SavedExtents DEF Place, Written
<1>3. e \in Extents
  BY <1>2 DEF Extents
<1>4. ASSUME NEW n \in 0 .. next, NEW size \in LengthsRead(n)
      PROVE  /\ size \in RecordSizes /\ size \in Nat \ {0}
             /\ n # 0 => size = log[order[n]].size
  <2>1. CASE n = 0
    BY <1>4, <2>1, Sizes DEF LengthsRead
  <2>2. CASE n # 0
    BY <1>1, <1>4, <2>2, SavedExtents DEF LengthsRead
  <2> QED
    BY <2>1, <2>2
<1>5. pieces \subseteq [at : Nat, from : Nat, size : RecordSizes]
  BY DEF Written
<1> HIDE DEF r, e
<1>6. ASSUME NEW size \in RecordSizes, size \in Nat \ {0},
             NEW read \in BOOLEAN, NEW written \in BOOLEAN, Copy(size, read, written)
      PROVE  /\ next' = next + 1 /\ entries' = Append(entries, e)
             /\ from' \in Nat /\ to' \in Nat /\ to <= to' /\ pieces \subseteq pieces'
             /\ pieces' \subseteq [at : Nat, from : Nat, size : RecordSizes]
  <2>1. next' = next + 1 /\ entries' = Append(entries, e)
    BY <1>6 DEF Copy, r, e
  <2>2. from' \in Nat /\ to' \in Nat /\ to <= to'
    BY <1>2, <1>6 DEF Copy
  <2>3. [at |-> to, from |-> Place, size |-> size] \in [at : Nat, from : Nat, size : RecordSizes]
    BY <1>2
  <2>4. pieces' = pieces \/ pieces' = pieces \cup {[at |-> to, from |-> Place, size |-> size]}
    BY <1>6 DEF Copy
  <2> QED
    BY <1>5, <2>1, <2>2, <2>3, <2>4
<1>7. round' = round
  BY DEF WriteRecord
<1>8. CASE CopyRecord
  <2>1. PICK size \in LengthsRead(next - lag) : Copy(size, TRUE, TRUE)
    BY <1>8 DEF CopyRecord
  <2>2. next - lag \in 0 .. next /\ next - lag # 0
    BY <1>1
  <2>3. size \in RecordSizes /\ size \in Nat \ {0} /\ size = log[order[next - lag]].size
    BY <1>4, <2>1, <2>2
  <2>4. lag' = lag /\ intact' = intact
    BY <1>8 DEF CopyRecord
  <2>5. /\ from' = Place + size /\ to' = to + size
        /\ pieces' = pieces \cup {[at |-> to, from |-> Place, size |-> size]}
    BY <2>1 DEF Copy
  <2>6. /\ next' = next + 1 /\ entries' = Append(entries, e)
        /\ from' \in Nat /\ to' \in Nat /\ to <= to' /\ pieces \subseteq pieces'
        /\ pieces' \subseteq [at : Nat, from : Nat, size : RecordSizes]
    BY <1>6, <2>1, <2>3
  <2>7. lag' \in 0 .. next /\ intact' \in 0 .. intact
    BY <1>1, <2>4
  <2> QED
    BY <1>1, <1>2, <1>3, <1>7, <2>3, <2>4, <2>5, <2>6, <2>7 DEF r, e
<1>9. CASE SpoilRecord
  <2>1. PICK stale \in BOOLEAN, read \in BOOLEAN, written \in BOOLEAN :
          /\ lag' = (IF stale THEN lag + 1 ELSE lag)
          /\ \E size \in LengthsRead(next - lag') : Copy(size, read, written)
    BY <1>9 DEF SpoilRecord
  <2>2. PICK size \in LengthsRead(next - lag') : Copy(size, read, written)
    BY <2>1
  <2>3. lag' \in 0 .. next /\ next - lag' \in 0 .. next
    BY <1>1, <2>1
  <2>4. size \in RecordSizes /\ size \in Nat \ {0}
    BY <1>4, <2>2, <2>3
  <2>5. /\ intact' = IF next <= intact THEN next - 1 ELSE intact
        /\ faults' = faults + 1 /\ faults \in Nat
    BY <1>9, Sizes DEF SpoilRecord, Unnoticed, Fault, Control
  <2>6. intact' \in 0 .. intact /\ ~(next <= intact') /\ faults' # 0
    BY <1>1, <2>5
  <2> QED
    BY <1>1, <1>2, <1>3, <1>6, <1>7, <2>2, <2>3, <2>4, <2>6 DEF r, e
<1> QED
  BY <1>8, <1>9 DEF WriteRecord

\* What the index copied and the header make of the entries: they lose none of those
\* that are counted as intact.
LEMMA IndexEffect ==
  ASSUME Control, Written, Count \in Nat, CopyIndexRound \/ CopyIndexRest \/ WriteHeader
  PROVE  /\ UNCHANGED <<next, from, to, pieces, lag>>
         /\ entries' \in Seq(Extents) /\ Len(entries') = Len(entries)
         /\ intact' \in 0 .. intact
         /\ \A i \in 1 .. Len(entries) : i <= intact' => entries'[i] = entries[i]
         /\ faults' = 0 => intact' = intact /\ faults = 0
         /\ round' = round \/ CopyIndexRound
<1>1. /\ UNCHANGED <<next, from, to, pieces, lag>>
      /\ round' = round \/ CopyIndexRound
  BY DEF CopyIndexRound, CopyIndexRest, WriteHeader
<1>2. \/ UNCHANGED <<entries, intact, faults>>
      \/ \E first \in Nat \ {0} : \E last \in Int : SpoilIndex(first, last)
  <2>1. round * CopyUnit + 1 \in Nat \ {0} /\ (round + 1) * CopyUnit \in Int
    <3>1. round \in Nat
      BY DEF Written
    <3> QED
      BY <3>1, Sizes
  <2>2. CASE CopyIndexRound
    BY <2>1, <2>2 DEF CopyIndexRound, CopyEntries
  <2>3. CASE CopyIndexRest
    BY <2>1, <2>3 DEF CopyIndexRest, CopyEntries
  <2>4. CASE WriteHeader
    BY <2>4 DEF WriteHeader
  <2> QED
    BY <2>2, <2>3, <2>4
<1>3. /\ entries \in Seq(Extents) /\ intact \in 0 .. Count /\ faults \in Nat
  BY Sizes DEF Written, Control
<1>4. CASE UNCHANGED <<entries, intact, faults>>
  BY <1>1, <1>3, <1>4
<1>5. ASSUME NEW first \in Nat \ {0}, NEW last \in Int, SpoilIndex(first, last)
      PROVE  /\ entries' \in Seq(Extents) /\ Len(entries') = Len(entries)
             /\ intact' \in 0 .. intact /\ faults' # 0
             /\ \A i \in 1 .. Len(entries) : i <= intact' => entries'[i] = entries[i]
  <2>1. /\ faults' = faults + 1 /\ intact' = (IF first <= intact THEN first - 1 ELSE intact)
        /\ entries' = [i \in DOMAIN entries |->
              IF first <= i /\ i <= last THEN [start |-> 0, size |-> 0] ELSE entries[i]]
    BY <1>5 DEF SpoilIndex, Unnoticed, Fault
  <2>2. intact' \in 0 .. intact /\ intact' < first /\ faults' # 0
    BY <1>3, <2>1
  <2>3. DOMAIN entries = 1 .. Len(entries) /\ Len(entries) \in Nat
    BY <1>3
  <2>4. \A i \in 1 .. Len(entries) : entries[i] \in Extents
    BY <1>3
  <2>5. [start |-> 0, size |-> 0] \in Extents
    BY DEF Extents
  <2>6. entries' \in [1 .. Len(entries) -> Extents]
    BY <2>1, <2>3, <2>4, <2>5
  <2>7. entries' \in Seq(Extents) /\ Len(entries') = Len(entries)
    BY <2>3, <2>6
  <2>8. \A i \in 1 .. Len(entries) : i <= intact' => entries'[i] = entries[i]
    BY <1>3, <2>1, <2>2, <2>3
  <2> QED
    BY <2>2, <2>7, <2>8
<1> QED
  BY <1>1, <1>2, <1>4, <1>5

LEMMA WrittenStep ==
  ASSUME Types, [Next]_vars
  PROVE  Written'
<1>0. Fixed /\ Control /\ Written /\ Count \in Nat
  BY Saved, Sizes DEF Types
<1>1. UNCHANGED dataVars /\ Count' = Count /\ IndexLength' = IndexLength
  BY FixedKept, DerivedKept
<1>2. CASE WriteRecord
  <2> DEFINE r == log[order[next]]
             e == [start |-> IF kind = "dtl" THEN r.start ELSE to, size |-> r.size]
  <2>1. /\ next \in 1 .. Count /\ next' = next + 1 /\ round' = round
        /\ e \in Extents /\ entries' = Append(entries, e)
        /\ from' \in Nat /\ to' \in Nat
        /\ pieces' \subseteq [at : Nat, from : Nat, size : RecordSizes]
        /\ lag' \in 0 .. next /\ intact' \in 0 .. intact
    BY <1>0, <1>2, WriteRecordEffect
  <2> HIDE DEF r, e
  <2>2. entries' \in Seq(Extents) /\ Len(entries') = next' - 1
    BY <1>0, <2>1 DEF Written
  <2>3. next' \in 1 .. Count + 1 /\ lag' \in 0 .. next' - 1 /\ intact' \in 0 .. Count
    BY <1>0, <2>1 DEF Written
  <2> QED
    BY <1>0, <1>1, <2>1, <2>2, <2>3 DEF Written
<1>3. CASE CopyIndexRound \/ CopyIndexRest \/ WriteHeader
  <2>1. IndexLength \div CopyUnit \in Int
    <3>1. IndexLength \in Nat
      BY <1>0, Sizes, RoundsUp DEF IndexLength
    <3> QED
      BY <3>1, Sizes
  <2>2. /\ UNCHANGED <<next, from, to, pieces, lag>>
        /\ entries' \in Seq(Extents) /\ Len(entries') = Len(entries)
        /\ intact' \in 0 .. intact /\ (round' = round \/ CopyIndexRound)
    BY <1>0, <1>3, IndexEffect
  <2>3. round' \in 0 .. IndexLength \div CopyUnit
    <3> DEFINE top == IndexLength \div CopyUnit
    <3>1. round \in 0 .. top /\ top \in Int
      BY <1>0, <2>1 DEF Written
    <3>2. round' = round \/ (round < top /\ round' = round + 1)
      BY <2>2 DEF CopyIndexRound
    <3> HIDE DEF top
    <3>3. round' \in 0 .. top
      BY <3>1, <3>2
    <3> QED
      BY <3>3 DEF top
  <2>4. intact' \in 0 .. Count
    BY <1>0, <2>2 DEF Written
  <2> QED
    BY <1>0, <1>1, <2>2, <2>3, <2>4 DEF Written
<1>4. CASE UNCHANGED fileVars
  BY <1>0, <1>1, <1>4 DEF fileVars, Written
<1> QED
  BY WrittenKept, <1>2, <1>3, <1>4

LEMMA ContextStep ==
  ASSUME Context, Control, [Next]_vars
  PROVE  Context'
<1>1. note.full \in BOOLEAN
  BY DEF Control
<1>2. CASE EnterCallback
  <2>1. touched' \in BOOLEAN
    BY <1>2, Zenon DEF EnterCallback
  <2>2. frees' \in Nat
    <3>1. frees' = frees + 1 \/ frees' = frees
      BY <1>2, Zenon DEF EnterCallback
    <3> QED
      BY <3>1 DEF Context
  <2>3. UNCHANGED <<dialog, state, told>>
    BY <1>2 DEF EnterCallback
  <2> QED
    BY <2>1, <2>2, <2>3 DEF Context
<1>3. CASE SendMessage
  <2>1. told' \in BOOLEAN /\ touched' \in BOOLEAN
    BY <1>1, <1>3, Zenon DEF SendMessage, Context, dialogVars
  <2>2. dialog' \in {"open", "closed"} /\ state' \in States /\ frees' = frees
    BY <1>3, Zenon DEF SendMessage, Context, dialogVars, States
  <2>3. frees' \in Nat
    BY <2>2 DEF Context
  <2> QED
    BY <2>1, <2>2, <2>3, Zenon DEF Context
<1>4. CASE LeaveCallback
  <2>1. touched' \in BOOLEAN
    BY <1>4, Zenon DEF LeaveCallback
  <2> QED
    BY <1>4, <2>1 DEF LeaveCallback, Context, CallbackReturns
<1>5. CASE UserCancels
  <2>1. touched' \in BOOLEAN
    BY <1>5, Zenon DEF UserCancels
  <2> QED
    BY <1>5, <2>1 DEF UserCancels, Context, States
<1>6. CASE UNCHANGED dialogVars
  BY <1>6 DEF dialogVars, Context
<1> QED
  BY ContextKept, <1>2, <1>3, <1>4, <1>5, <1>6

LEMMA TypesStep ==
  ASSUME Types, [Next]_vars
  PROVE  Types'
<1>1. Fixed'
  BY FixedKept DEF Types, Fixed, dataVars, Orders
<1> QED
  BY <1>1, ControlStep, WrittenStep, ContextStep DEF Types

LEMMA TypesInit == Init => Types
<1> SUFFICES ASSUME Init PROVE Types
  OBVIOUS
<1>1. Fixed
  BY DEF Init, Fixed
<1>2. Control
  <2>1. note \in [full : BOOLEAN, abort : BOOLEAN, back : Backs]
    BY DEF Init, EmptyNote, Backs
  <2>2. faults \in 0 .. MaxFaults
    BY Sizes DEF Init
  <2> QED
    BY <2>1, <2>2, Zenon DEF Init, Control, Labels
<1>3. Written
  <2>1. Count \in 1 .. MaxRecords
    BY <1>1, Saved
  <2>2. IndexLength \in Nat
    BY <2>1, Sizes, RoundsUp DEF IndexLength
  <2>3. IndexLength \div CopyUnit \in Nat
    BY <2>2, Sizes
  <2>4. next \in 1 .. Count + 1 /\ round \in 0 .. IndexLength \div CopyUnit
    BY <2>1, <2>3, Sizes DEF Init
  <2>5. entries \in Seq(Extents) /\ Len(entries) = 0
    BY EmptySeq DEF Init
  <2>6. lag \in 0 .. next - 1 /\ intact \in 0 .. Count
    BY <2>1, Sizes DEF Init
  <2> QED
    BY <2>4, <2>5, <2>6 DEF Init, Written
<1>4. Context
  BY DEF Init, Context, States
<1> QED
  BY <1>1, <1>2, <1>3, <1>4 DEF Types

--------------------------------------------------------------------------------
(***************************************************************************)
(* What is copied.                                                          *)
(***************************************************************************)
\* The record that is read is the one that the index names.
LEMMA PlaceIsStart ==
  ASSUME Types, Pointers, Ordered, next \in 1 .. Count, next - 1 <= intact
  PROVE  /\ Place = log[order[next]].start
         /\ kind = "dtl" => to = log[order[next]].start
<1>1. Fixed
  BY DEF Types
<1>2. CASE kind \in Sequential
  <2>1. InOrder(log) /\ order[next] = next
    BY <1>1, <1>2, Saved DEF Ordered
  <2>2. Place = from /\ from = (IF next = 1 THEN 0 ELSE EndOf(log[next - 1]))
    BY <1>2, <2>1 DEF Place, Pointers
  <2>3. CASE next = 1
    <3>1. log[next].start = 0
      BY <1>1, <2>1, <2>3, EndToEnd
    <3> QED
      BY <1>2, <2>1, <2>2, <2>3, <3>1 DEF Pointers
  <2>4. CASE next # 1
    <3>1. Count \in 1 .. MaxRecords
      BY <1>1, Saved
    <3>2. next - 1 \in 1 .. MaxRecords - 1 /\ (next - 1) + 1 = next
      BY <2>4, <3>1, Sizes
    <3>3. log[(next - 1) + 1].start = EndOf(log[next - 1])
      BY <1>1, <2>1, <3>2, EndToEnd
    <3> QED
      BY <1>2, <2>1, <2>2, <2>4, <3>2, <3>3 DEF Pointers
  <2> QED
    BY <2>3, <2>4
<1>3. CASE kind \notin Sequential
  BY <1>3 DEF Place, Sequential
<1> QED
  BY <1>2, <1>3

LEMMA FaultsGrow ==
  ASSUME Types, [Next]_vars
  PROVE  faults' \in Nat /\ faults \in Nat /\ faults <= faults'
<1>1. faults \in Nat
  BY Sizes DEF Types, Control
<1>2. faults' = faults \/ faults' = faults + 1
  <2>1. CASE EnterCallback \/ SendMessage \/ LeaveCallback \/ UserCancels
    BY <2>1 DEF EnterCallback, SendMessage, LeaveCallback, UserCancels
  <2>2. CASE OpenFiles \/ OpenFails \/ WriteRecord \/ WriteFails \/ Failed
    BY <2>2 DEF OpenFiles, OpenFails, WriteRecord, CopyRecord, SpoilRecord, WriteFails,
                Failed, Unnoticed, Fault
  <2>3. CASE RecordTold \/ RecordsDone \/ CopyIndexRound \/ RoundTold
    BY <2>3 DEF RecordTold, RecordsDone, CopyIndexRound, RoundTold, CopyEntries, SpoilIndex,
                Unnoticed, Fault
  <2>4. CASE CopyIndexRest \/ RestTold \/ WriteHeader \/ UNCHANGED vars
    BY <2>4 DEF CopyIndexRest, RestTold, WriteHeader, CopyEntries, SpoilIndex, Unnoticed,
                Fault, vars
  <2> QED
    BY NextCases, <2>1, <2>2, <2>3, <2>4
<1> QED
  BY <1>1, <1>2

LEMMA LagGrows ==
  ASSUME Types, [Next]_vars
  PROVE  lag' = 0 => lag = 0
<1>0. Fixed /\ Control /\ Written /\ Count \in Nat /\ lag \in Nat
  BY Saved, Sizes DEF Types, Written
<1>1. CASE WriteRecord
  <2>1. lag' = lag \/ lag' = lag + 1
    BY <1>1 DEF WriteRecord, CopyRecord, SpoilRecord
  <2> QED
    BY <1>0, <2>1
<1>2. CASE CopyIndexRound \/ CopyIndexRest \/ WriteHeader
  BY <1>0, <1>2, IndexEffect
<1>3. CASE UNCHANGED fileVars
  BY <1>3 DEF fileVars
<1> QED
  BY WrittenKept, <1>1, <1>2, <1>3

LEMMA PointersStep ==
  ASSUME Types, Pointers, [Next]_vars
  PROVE  Pointers'
<1>0. Fixed /\ Control /\ Written /\ Count \in Nat
  BY Saved, Sizes DEF Types
<1>1. kind' = kind /\ log' = log /\ Count' = Count
  BY FixedKept, DerivedKept
<1>2. faults \in Nat /\ faults' \in Nat /\ (faults' = 0 => faults = 0)
  BY FaultsGrow
<1>3. CASE WriteRecord
  <2> DEFINE r == log[order[next]]
  <2>1. /\ next \in 1 .. Count /\ next' = next + 1
        /\ r.start \in Nat /\ r.size \in Nat
        /\ intact' \in 0 .. intact /\ (faults' = 0 => intact' = intact)
        /\ next <= intact' =>
             /\ from' = Place + log[order[next - lag]].size
             /\ to' = to + log[order[next - lag]].size /\ lag' = lag
    BY <1>0, <1>3, WriteRecordEffect
  <2>2. next \in Nat /\ intact \in Nat /\ lag \in Nat
    BY <1>0, <2>1 DEF Written
  <2>3. faults' = 0 => intact' = Count'
    BY <1>1, <1>2, <2>1 DEF Pointers
  <2>4. ASSUME next' - 1 <= intact'
        PROVE  /\ lag' = 0
               /\ kind \in Sequential /\ InOrder(log) =>
                    /\ from' = EndOf(log[next' - 1]) /\ next' # 1
                    /\ kind = "dtl" => to' = from'
    <3>1. next <= intact' /\ next - 1 <= intact /\ next' - 1 = next /\ next' # 1
      BY <2>1, <2>2, <2>4
    <3>2. lag = 0 /\ lag' = 0 /\ next - lag = next
      BY <2>1, <2>2, <3>1 DEF Pointers
    <3>3. from' = Place + r.size /\ to' = to + r.size
      BY <2>1, <3>1, <3>2
    <3>4. ASSUME kind \in Sequential, InOrder(log)
          PROVE  from' = EndOf(log[next]) /\ (kind = "dtl" => to' = from')
      <4>1. Place = r.start /\ (kind = "dtl" => to = r.start)
        BY <2>1, <3>1, <3>4, PlaceIsStart DEF Ordered
      <4>2. order[next] = next
        BY <1>0, <2>1, <3>4, Saved
      <4> QED
        BY <2>1, <3>3, <4>1, <4>2 DEF EndOf
    <3> QED
      BY <3>1, <3>2, <3>4
  <2> QED
    BY <1>1, <2>3, <2>4 DEF Pointers, InOrder
<1>4. CASE CopyIndexRound \/ CopyIndexRest \/ WriteHeader
  <2>1. /\ UNCHANGED <<next, from, to, lag>> /\ intact' \in 0 .. intact
        /\ faults' = 0 => intact' = intact
    BY <1>0, <1>4, IndexEffect
  <2>2. next \in Nat /\ intact \in Nat
    BY <1>0 DEF Written
  <2>3. next' - 1 <= intact' => next - 1 <= intact
    BY <2>1, <2>2
  <2> QED
    BY <1>1, <1>2, <2>1, <2>3 DEF Pointers, InOrder
<1>5. CASE UNCHANGED fileVars
  BY <1>1, <1>2, <1>5 DEF Pointers, fileVars, InOrder
<1> QED
  BY WrittenKept, <1>3, <1>4, <1>5

LEMMA CopiedStep ==
  ASSUME Types, Pointers, Copied, [Next]_vars
  PROVE  Copied'
<1>0. Fixed /\ Control /\ Written /\ Count \in Nat
  BY Saved, Sizes DEF Types
<1>1. kind' = kind /\ log' = log /\ order' = order
  BY FixedKept, DerivedKept
<1>2. Ordered' = Ordered
  BY <1>1 DEF Ordered
<1>3. CASE WriteRecord
  <2> DEFINE r == log[order[next]]
             e == [start |-> IF kind = "dtl" THEN r.start ELSE to, size |-> r.size]
  <2> SUFFICES ASSUME Ordered, NEW i \in 1 .. next' - 1, i <= intact'
               PROVE  LET s == log[order[i]]
                      IN  /\ entries'[i].size = s.size
                          /\ [at |-> entries'[i].start, from |-> s.start, size |-> s.size]
                               \in pieces'
                          /\ IF kind = "dtl" THEN entries'[i].start = s.start
                                             ELSE EndOf(entries'[i]) <= to'
    BY <1>1, <1>2 DEF Copied
  <2>1. /\ next \in 1 .. Count /\ next' = next + 1 /\ r.start \in Nat /\ r.size \in Nat
        /\ Place \in Nat /\ to' \in Nat /\ to <= to' /\ pieces \subseteq pieces'
        /\ e \in Extents /\ entries' = Append(entries, e)
        /\ intact' \in 0 .. intact
        /\ next <= intact' =>
             /\ to' = to + log[order[next - lag]].size
             /\ pieces' = pieces \cup {[at |-> to, from |-> Place,
                                        size |-> log[order[next - lag]].size]}
    BY <1>0, <1>3, WriteRecordEffect
  <2>3. /\ entries \in Seq(Extents) /\ Len(entries) = next - 1
        /\ next \in Nat \ {0} /\ to \in Nat /\ intact \in Nat /\ lag \in Nat
    BY <1>0 DEF Written
  <2>4. CASE i = next
    <3>0. next <= intact' /\ next - 1 <= intact /\ lag = 0 /\ next - lag = next
      BY <2>1, <2>3, <2>4 DEF Pointers
    <3>5. Place = r.start /\ (kind = "dtl" => to = r.start)
      BY <2>1, <3>0, PlaceIsStart
    <3>6. /\ to' = to + r.size
          /\ pieces' = pieces \cup {[at |-> to, from |-> Place, size |-> r.size]}
      BY <2>1, <3>0
    <3>1. entries'[i] = e
      BY <2>1, <2>3, <2>4
    <3>2. e.start = to /\ e.size = r.size
      BY <3>5
    <3>3. EndOf(e) <= to'
      BY <2>1, <2>3, <3>2, <3>6 DEF EndOf
    <3> HIDE DEF e
    <3> QED
      BY <2>4, <3>1, <3>2, <3>3, <3>5, <3>6
  <2>5. CASE i # next
    <3>1. i \in 1 .. next - 1 /\ i <= intact
      BY <2>1, <2>3, <2>5
    <3> HIDE DEF e
    <3>2. entries'[i] = entries[i]
      BY <2>1, <2>3, <3>1
    <3>3. entries[i] \in Extents
      BY <2>3, <3>1
    <3>4. EndOf(entries[i]) \in Nat
      BY <3>3 DEF Extents, EndOf
    <3>5. LET s == log[order[i]]
          IN  /\ entries[i].size = s.size
              /\ [at |-> entries[i].start, from |-> s.start, size |-> s.size] \in pieces
              /\ IF kind = "dtl" THEN entries[i].start = s.start ELSE EndOf(entries[i]) <= to
      BY <3>1 DEF Copied
    <3>6. EndOf(entries[i]) <= to => EndOf(entries[i]) <= to'
      BY <2>1, <2>3, <3>4
    <3>7. pieces \subseteq pieces'
      BY <2>1
    <3> HIDE DEF r
    <3> QED
      BY <3>2, <3>5, <3>6, <3>7, Zenon
  <2> QED
    BY <2>4, <2>5
<1>4. CASE CopyIndexRound \/ CopyIndexRest \/ WriteHeader
  <2>1. /\ UNCHANGED <<next, to, pieces>> /\ intact' \in 0 .. intact
        /\ \A i \in 1 .. Len(entries) : i <= intact' => entries'[i] = entries[i]
    BY <1>0, <1>4, IndexEffect
  <2>2. Len(entries) = next - 1 /\ next \in Nat /\ intact \in Nat
    BY <1>0 DEF Written
  <2>3. \A i \in 1 .. next' - 1 : i <= intact' =>
          i \in 1 .. next - 1 /\ i <= intact /\ entries'[i] = entries[i]
    BY <2>1, <2>2
  <2> QED
    BY <1>1, <1>2, <2>1, <2>3 DEF Copied
<1>5. CASE UNCHANGED fileVars
  <2>1. UNCHANGED <<next, to, pieces, entries, intact>>
    BY <1>5 DEF fileVars
  <2> QED
    BY <1>1, <1>2, <2>1 DEF Copied
<1> QED
  BY WrittenKept, <1>3, <1>4, <1>5

\* A file with all of its records holds each of them that is intact.
LEMMA CopiedIsHeld ==
  ASSUME Types, Copied, Ordered, next = Count + 1, NEW i \in 1 .. Count, i <= intact
  PROVE  Held(i)
<1> DEFINE e == entries[i]  r == log[order[i]]
<1>1. Fixed /\ Written /\ Count \in 1 .. MaxRecords
  BY Saved DEF Types
<1>2. r \in Extents /\ r.start \in Nat /\ r.size \in Nat \ {0} /\ EndOf(r) \in Nat
  BY <1>1, SavedExtents
<1>3. i \in 1 .. next - 1 /\ i \in 1 .. Len(entries)
  BY <1>1, Sizes DEF Written
<1>4. e \in Extents /\ e.start \in Nat
  <2>1. entries \in Seq(Extents)
    BY <1>1 DEF Written
  <2>2. entries[i] \in Extents
    BY <1>3, <2>1, ElementOfSeq
  <2> QED
    BY <2>2 DEF Extents
<1>5. /\ e.size = r.size
      /\ [at |-> e.start, from |-> r.start, size |-> r.size] \in pieces
      /\ IF kind = "dtl" THEN e.start = r.start ELSE EndOf(e) <= to
  BY <1>3 DEF Copied
<1>6. EndOf(e) <= DataLength
  <2>1. CASE kind = "dtl"
    <3> DEFINE last == EndOf(log[order[Count]])
    <3>1. InOrder(log) /\ order[i] = i /\ order[Count] = Count /\ Count \in 1 .. Count
      BY <1>1, <2>1, Saved, Sizes DEF Ordered, Sequential
    <3>2. last \in Nat
      BY <1>1, <3>1, SavedExtents
    <3>3. EndOf(r) <= last
      <4>1. CASE i = Count
        BY <1>2, <4>1
      <4>2. CASE i # Count
        <5>1. i < Count /\ i \in DOMAIN log /\ Count \in DOMAIN log
          BY <1>1, <4>2, Sizes DEF Fixed, Logs
        <5>2. EndOf(log[i]) <= log[Count].start
          BY <3>1, <5>1 DEF InOrder
        <5>3. log[Count].start \in Nat /\ log[Count].start < EndOf(log[Count])
          BY <1>1, LogExtents
        <5> QED
          BY <1>2, <3>1, <3>2, <5>2, <5>3
      <4> QED
        BY <4>1, <4>2
    <3>4. last <= RoundUp(last, DataMapUnit) /\ RoundUp(last, DataMapUnit) \in Nat
      BY <3>2, Sizes, RoundsUp
    <3>5. EndOf(e) = EndOf(r) /\ DataLength = RoundUp(last, DataMapUnit)
      BY <1>5, <2>1 DEF EndOf, DataLength
    <3> HIDE DEF last, e, r
    <3> QED
      BY <1>2, <3>2, <3>3, <3>4, <3>5
  <2>2. CASE kind # "dtl"
    BY <1>5, <2>2 DEF DataLength
  <2> QED
    BY <2>1, <2>2
<1>7. ASSUME NEW k \in 0 .. r.size - 1
      PROVE  UnitAt(e.start + k, r.start + k)
  <2> DEFINE p == [at |-> e.start, from |-> r.start, size |-> r.size]
  <2>1. p \in pieces /\ p.at = e.start /\ p.from = r.start /\ p.size = r.size
    BY <1>5
  <2> HIDE DEF p, e, r
  <2>2. /\ p.at <= e.start + k /\ e.start + k < p.at + p.size
        /\ p.from + ((e.start + k) - p.at) = r.start + k
    BY <1>2, <1>4, <2>1
  <2> QED
    BY <2>1, <2>2 DEF UnitAt
<1> QED
  BY <1>5, <1>6, <1>7 DEF Held

--------------------------------------------------------------------------------
(***************************************************************************)
(* What is left behind.                                                     *)
(***************************************************************************)
\* A call, its steps and its return leave the work item where it is.
LEMMA CallKeepsPlace ==
  ASSUME Types, Phases, EnterCallback \/ SendMessage \/ LeaveCallback
  PROVE  /\ At' = At /\ Calling /\ UNCHANGED note
         /\ UNCHANGED fileVars /\ UNCHANGED <<file, barrier, faults>>
         /\ pc' = note.back \/ pc' \in {"send", "check"}
         /\ pc' = note.back => ~Calling'
<1>1. note.back \in Backs \ {"open"} /\ Calling
  BY DEF Types, Control, Phases, Calling, EnterCallback, SendMessage, LeaveCallback
<1>2. pc' = note.back \/ pc' \in {"send", "check"}
  BY DEF EnterCallback, SendMessage, LeaveCallback, CallbackReturns
<1>3. UNCHANGED note /\ UNCHANGED fileVars /\ UNCHANGED <<file, barrier, faults>>
  BY DEF EnterCallback, SendMessage, LeaveCallback
<1>4. pc' = note.back => ~Calling'
  BY <1>1 DEF Calling, Backs
<1>5. pc' \in {"send", "check"} => Calling'
  BY DEF Calling
<1> QED
  BY <1>1, <1>2, <1>3, <1>4, <1>5 DEF At

\* A call begins: the work item will go on at the place it names.
LEMMA CallBegins == pc' = "enter" => Calling' /\ At' = note'.back
  BY DEF Calling, At

\* Outside of a call the control point is the place, and the note is a past one.
LEMMA PlaceOutside ==
  /\ ~Calling => At = pc
  /\ pc' \notin {"enter", "send", "check"} => ~Calling' /\ At' = pc'
  BY DEF Calling, At

LEMMA PhasesStep ==
  ASSUME Types, Phases, [Next]_vars
  PROVE  Phases'
<1>0. /\ kind' = kind /\ live' = live /\ Count' = Count
      /\ live \in BOOLEAN /\ note.back \in Backs
  BY FixedKept, DerivedKept DEF Types, Fixed, Control
<1>1. CASE EnterCallback \/ SendMessage \/ LeaveCallback
  <2>1. At' = At /\ UNCHANGED <<note, file, barrier, next>> /\ Calling
    BY <1>1, CallKeepsPlace DEF fileVars
  <2> QED
    BY <1>0, <2>1 DEF Phases
<1>2. CASE OpenFiles
  <2>1. At' = "record" /\ ~Calling' /\ file' = "written" /\ At = "open"
    BY <1>2, PlaceOutside DEF OpenFiles, Calling
  <2>2. barrier' = (live /\ kind \in DtlKinds)
    BY <1>2 DEF OpenFiles
  <2> QED
    BY <1>0, <2>1, <2>2 DEF Phases
<1>3. CASE OpenFails
  <2>1. At = "open" /\ file = "absent" /\ ~barrier /\ UNCHANGED <<file, barrier>>
    BY <1>3, PlaceOutside DEF OpenFails, Calling, Phases
  <2>2. At' = "ended" /\ (Calling' => note'.back # "open")
    <3>1. CASE kind = "csv"
      BY <1>3, <3>1, PlaceOutside DEF OpenFails
    <3>2. CASE kind # "csv"
      BY <1>3, <3>2, CallBegins DEF OpenFails, Callback
    <3> QED
      BY <3>1, <3>2
  <2> QED
    BY <2>1, <2>2 DEF Phases
<1>4. CASE WriteRecord
  <2>1. At = "record" /\ UNCHANGED <<file, barrier>>
    BY <1>4, PlaceOutside DEF WriteRecord, Calling
  <2>2. At' \in {"record", "recordtold"} /\ (Calling' => note'.back # "open")
    <3>1. CASE \E full \in Full : Callback(full, FALSE, "recordtold")
      BY <3>1, CallBegins DEF Callback
    <3>2. CASE UNCHANGED <<pc, note>>
      BY <1>4, <3>2, PlaceOutside DEF WriteRecord, Calling
    <3> QED
      BY <1>4, <3>1, <3>2 DEF WriteRecord
  <2> QED
    BY <1>0, <2>1, <2>2 DEF Phases
<1>5. CASE WriteFails
  <2>1. At = "record" /\ file' = file /\ ~barrier'
    BY <1>5, PlaceOutside DEF WriteFails, Calling
  <2>2. At' = "failed" /\ note'.back = "failed"
    BY <1>5, CallBegins DEF WriteFails, Callback
  <2> QED
    BY <2>1, <2>2 DEF Phases
<1>6. CASE Failed
  <2>1. At = "failed" /\ At' = "ended" /\ ~Calling' /\ file' = "absent" /\ UNCHANGED barrier
    BY <1>6, PlaceOutside DEF Failed, Calling
  <2> QED
    BY <2>1 DEF Phases
<1>7. CASE RecordTold
  <2>1. At = "recordtold"
    BY <1>7, PlaceOutside DEF RecordTold, Calling
  <2>2. CASE ~cancel
    <3>1. At' = "record" /\ ~Calling' /\ UNCHANGED <<file, barrier, next>>
      BY <1>7, <2>2, PlaceOutside DEF RecordTold, fileVars
    <3> QED
      BY <1>0, <2>1, <3>1 DEF Phases
  <2>3. CASE cancel
    <3>1. At' = "ended" /\ ~Calling' /\ file' = "absent"
      BY <1>7, <2>3, PlaceOutside DEF RecordTold
    <3>2. barrier' = (barrier /\ kind = "dtl")
      BY <1>7, <2>3 DEF RecordTold
    <3> QED
      BY <1>0, <3>1, <3>2 DEF Phases
  <2> QED
    BY <2>2, <2>3
<1>8. CASE RecordsDone
  <2>1. At = "record" /\ file' = file /\ ~barrier' /\ next' = next /\ next > Count
    BY <1>8, PlaceOutside DEF RecordsDone, Calling, fileVars
  <2>2. At' \in {"index", "header"} /\ ~Calling'
    BY <1>8, PlaceOutside DEF RecordsDone
  <2>3. next = Count + 1
    BY <2>1, Saved, Sizes DEF Types, Written
  <2> QED
    BY <1>0, <2>1, <2>2, <2>3 DEF Phases
<1>9. CASE CopyIndexRound
  <2>1. At = "index" /\ UNCHANGED <<file, barrier, next>>
    BY <1>9, PlaceOutside DEF CopyIndexRound, Calling
  <2>2. At' = "roundtold" /\ note'.back = "roundtold"
    BY <1>9, CallBegins DEF CopyIndexRound, Callback
  <2> QED
    BY <1>0, <2>1, <2>2 DEF Phases
<1>10. CASE RoundTold
  <2>1. At = "roundtold" /\ UNCHANGED <<barrier, next>>
    BY <1>10, PlaceOutside DEF RoundTold, Calling, fileVars
  <2>2. ~Calling' /\ ((At' = "index" /\ file' = file) \/ (At' = "ended" /\ file' = "absent"))
    BY <1>10, PlaceOutside DEF RoundTold
  <2> QED
    BY <1>0, <2>1, <2>2 DEF Phases
<1>11. CASE CopyIndexRest
  <2>1. At = "index" /\ UNCHANGED <<file, barrier, next>>
    BY <1>11, PlaceOutside DEF CopyIndexRest, Calling, fileVars
  <2>2. At' = "resttold" /\ note'.back = "resttold"
    BY <1>11, CallBegins DEF CopyIndexRest, Callback
  <2> QED
    BY <1>0, <2>1, <2>2 DEF Phases
<1>12. CASE RestTold
  <2>1. At = "resttold" /\ UNCHANGED <<barrier, next>>
    BY <1>12, PlaceOutside DEF RestTold, Calling, fileVars
  <2>2. ~Calling' /\ ((At' = "header" /\ file' = file) \/ (At' = "ended" /\ file' = "absent"))
    BY <1>12, PlaceOutside DEF RestTold
  <2> QED
    BY <1>0, <2>1, <2>2 DEF Phases
<1>13. CASE WriteHeader
  <2>1. At = "header" /\ file' = "complete" /\ UNCHANGED <<barrier, next>>
    BY <1>13, PlaceOutside DEF WriteHeader, Calling, fileVars
  <2>2. At' = "ended" /\ (Calling' => note'.back # "open")
    <3>1. CASE kind = "csvfiltered"
      BY <1>13, <3>1, PlaceOutside DEF WriteHeader
    <3>2. CASE kind # "csvfiltered"
      BY <1>13, <3>2, CallBegins DEF WriteHeader, Callback
    <3> QED
      BY <3>1, <3>2
  <2> QED
    BY <1>0, <2>1, <2>2 DEF Phases
<1>14. CASE UserCancels \/ UNCHANGED vars
  <2>1. UNCHANGED <<pc, note, file, barrier, next>>
    BY <1>14 DEF UserCancels, vars, fileVars
  <2>2. At' = At /\ Calling' = Calling
    BY <2>1 DEF At, Calling
  <2> QED
    BY <1>0, <2>1, <2>2 DEF Phases
<1> QED
  BY NextCases, <1>1, <1>2, <1>3, <1>4, <1>5, <1>6, <1>7, <1>8, <1>9, <1>10, <1>11, <1>12,
     <1>13, <1>14

\* A step that is not in a call begins one with a known note, or none.
LEMMA NoteCases ==
  ASSUME Types, [Next]_vars
  PROVE  \/ EnterCallback \/ SendMessage \/ LeaveCallback
         \/ UNCHANGED <<pc, note>>
         \/ /\ ~Calling' /\ UNCHANGED note
            /\ At' \notin {"failed", "roundtold", "resttold"}
            /\ At' = "index" => kind = "dtl" \/ At = "roundtold"
         \/ Callback(FALSE, TRUE, "ended") /\ faults' > 0
         \/ \E full \in BOOLEAN : Callback(full, TRUE, "failed") /\ faults' > 0
         \/ /\ \E full \in Full : Callback(full, FALSE, "recordtold")
            /\ kind = "csv" => next % CsvRound = 0
         \/ Callback((round + 1) * CopyUnit = IndexLength, FALSE, "roundtold") /\ pc = "index"
         \/ Callback(FALSE, FALSE, "resttold") /\ pc = "index"
         \/ Callback(TRUE, FALSE, "ended") /\ file' = "complete"
<1>0. Fault => faults' > 0
  BY Sizes DEF Types, Control, Fault
<1>1. CASE OpenFiles \/ OpenFails \/ Failed
  BY <1>0, <1>1, PlaceOutside DEF OpenFiles, OpenFails, Failed
<1>2. CASE WriteRecord
  <2>1. TellsProgress /\ kind = "csv" => next % CsvRound = 0
    BY DEF TellsProgress, Sequential
  <2> QED
    BY <1>2, <2>1 DEF WriteRecord
<1>3. CASE WriteFails
  BY <1>0, <1>3 DEF WriteFails
<1>4. CASE RecordTold \/ RecordsDone
  BY <1>4, PlaceOutside DEF RecordTold, RecordsDone
<1>5. CASE CopyIndexRound
  BY <1>5 DEF CopyIndexRound
<1>6. CASE RoundTold \/ RestTold
  BY <1>6, PlaceOutside DEF RoundTold, RestTold, Calling
<1>7. CASE CopyIndexRest
  BY <1>7 DEF CopyIndexRest
<1>8. CASE WriteHeader
  BY <1>8, PlaceOutside DEF WriteHeader
<1>9. CASE UserCancels \/ UNCHANGED vars
  BY <1>9 DEF UserCancels, vars
<1> QED
  BY NextCases, <1>1, <1>2, <1>3, <1>4, <1>5, <1>6, <1>7, <1>8, <1>9

LEMMA CallsStep ==
  ASSUME Types, Phases, Calls, [Next]_vars
  PROVE  Calls'
<1>1. /\ kind' = kind /\ FullIndex' = FullIndex
      /\ faults' \in Nat /\ faults \in Nat /\ faults <= faults'
  BY FixedKept, DerivedKept, FaultsGrow
<1>2. CASE EnterCallback \/ SendMessage \/ LeaveCallback
  <2>1. At' = At /\ Calling /\ UNCHANGED note
    BY <1>2, CallKeepsPlace
  <2> QED
    BY <1>1, <2>1 DEF Calls
<1>3. CASE UNCHANGED <<pc, note>>
  <2>1. At' = At /\ Calling' = Calling
    BY <1>3 DEF At, Calling
  <2> QED
    BY <1>1, <1>3, <2>1 DEF Calls
<1>4. CASE /\ ~Calling' /\ UNCHANGED note
           /\ At' \notin {"failed", "roundtold", "resttold"}
           /\ At' = "index" => kind = "dtl" \/ At = "roundtold"
  BY <1>1, <1>4 DEF Calls
<1>5. CASE Callback(FALSE, TRUE, "ended") /\ faults' > 0
  <2>1. note' = [full |-> FALSE, abort |-> TRUE, back |-> "ended"] /\ At' = "ended"
    BY <1>5, CallBegins DEF Callback
  <2> QED
    BY <1>5, <2>1 DEF Calls
<1>6. CASE \E full \in BOOLEAN : Callback(full, TRUE, "failed") /\ faults' > 0
  <2>1. note'.abort /\ note'.back = "failed" /\ At' = "failed"
    BY <1>6, CallBegins DEF Callback
  <2> QED
    BY <1>6, <2>1 DEF Calls
<1>7. CASE \E full \in Full : Callback(full, FALSE, "recordtold")
  <2>1. ~note'.abort /\ note'.back = "recordtold" /\ At' = "recordtold"
    BY <1>7, CallBegins DEF Callback
  <2> QED
    BY <2>1 DEF Calls
<1>8. CASE Callback((round + 1) * CopyUnit = IndexLength, FALSE, "roundtold") /\ pc = "index"
  <2>1. ~note'.abort /\ note'.back = "roundtold" /\ At' = "roundtold"
    BY <1>8, CallBegins DEF Callback
  <2>2. note'.full = ((round + 1) * CopyUnit = IndexLength)
    BY <1>8 DEF Callback
  <2>3. kind = "dtl"
    BY <1>8, PlaceOutside DEF Calls, Calling
  <2>4. (round + 1) * CopyUnit = IndexLength => FullIndex
    <3>1. round + 1 \in Nat
      BY DEF Types, Written
    <3>2. ((round + 1) * CopyUnit) % CopyUnit = 0
      BY <3>1, NoRest, Sizes
    <3> QED
      BY <2>3, <3>2 DEF FullIndex
  <2> QED
    BY <1>1, <2>1, <2>2, <2>3, <2>4, Zenon DEF Calls
<1>9. CASE Callback(FALSE, FALSE, "resttold") /\ pc = "index"
  <2>1. note' = [full |-> FALSE, abort |-> FALSE, back |-> "resttold"] /\ At' = "resttold"
    BY <1>9, CallBegins DEF Callback
  <2>2. kind = "dtl"
    BY <1>9, PlaceOutside DEF Calls, Calling
  <2> QED
    BY <1>1, <2>1, <2>2 DEF Calls
<1>10. CASE Callback(TRUE, FALSE, "ended")
  <2>1. note' = [full |-> TRUE, abort |-> FALSE, back |-> "ended"] /\ At' = "ended"
    BY <1>10, CallBegins DEF Callback
  <2> QED
    BY <2>1 DEF Calls
<1> QED
  BY NoteCases, <1>2, <1>3, <1>4, <1>5, <1>6, <1>7, <1>8, <1>9, <1>10

\* Where the user is told 100 percent the file is complete, but for the exceptions.
LEMMA AnnouncedStep ==
  ASSUME Types, Phases, Calls, Calls', Announced, [Next]_vars
  PROVE  Announced'
<1>1. /\ kind' = kind /\ Excepted' = Excepted /\ FullIndex' = FullIndex
      /\ note.full \in BOOLEAN /\ note.abort \in BOOLEAN
  BY FixedKept, DerivedKept DEF Types, Control
<1> SUFFICES ASSUME ~Excepted, lag = 0, lag' = 0
             PROVE  /\ Calling' /\ note'.full /\ ~note'.abort =>
                         note'.back = "ended" /\ file' = "complete"
                    /\ told' => At' = "ended" /\ file' = "complete"
  BY <1>1, LagGrows DEF Announced
<1>2. CASE EnterCallback \/ SendMessage \/ LeaveCallback
  <2>1. At' = At /\ Calling /\ UNCHANGED note /\ file' = file
    BY <1>2, CallKeepsPlace
  <2>2. told' => told \/ (note.full /\ ~note.abort)
    BY <1>2 DEF EnterCallback, SendMessage, LeaveCallback, dialogVars
  <2> QED
    BY <2>1, <2>2 DEF Announced, At
<1>3. CASE ~(EnterCallback \/ SendMessage \/ LeaveCallback)
  <2>1. told' = told
    BY <1>3, ContextKept DEF UserCancels, dialogVars
  <2>2. At = "ended" => At' = "ended" /\ file' = file
    <3> SUFFICES ASSUME At = "ended" PROVE At' = "ended" /\ file' = file
      OBVIOUS
    <3>1. UserCancels \/ UNCHANGED vars
      BY <1>3, NextCases DEF At, Calling, OpenFiles, OpenFails, WriteRecord, WriteFails,
         Failed, RecordTold, RecordsDone, CopyIndexRound, RoundTold, CopyIndexRest, RestTold,
         WriteHeader
    <3> QED
      BY <3>1 DEF UserCancels, vars, At, Calling
  <2>3. told' => At' = "ended" /\ file' = "complete"
    BY <2>1, <2>2 DEF Announced
  <2>4. ASSUME Calling', note'.full, ~note'.abort
        PROVE  note'.back = "ended" /\ file' = "complete"
    <3>1. CASE UNCHANGED <<pc, note>>
      <4>1. Calling /\ At = note.back /\ note.back = "ended" /\ file = "complete"
        BY <2>4, <3>1 DEF Announced, Calling, At
      <4> QED
        BY <2>2, <3>1, <4>1
    <3>2. CASE Callback(FALSE, TRUE, "ended") \/ Callback(FALSE, FALSE, "resttold")
      BY <2>4, <3>2 DEF Callback
    <3>3. CASE \E full \in BOOLEAN : Callback(full, TRUE, "failed")
      BY <2>4, <3>3 DEF Callback
    <3>4. CASE /\ \E full \in Full : Callback(full, FALSE, "recordtold")
               /\ kind = "csv" => next % CsvRound = 0
      <4>0. \A full \in Full : full = (kind = "csv" /\ next = Count)
        BY DEF Full
      <4>1. note'.full = (kind = "csv" /\ next = Count)
        BY <3>4, <4>0 DEF Callback
      <4>2. kind = "csv" /\ Count % CsvRound = 0
        BY <2>4, <3>4, <4>1
      <4> QED
        BY <4>2 DEF Excepted
    <3>5. CASE Callback((round + 1) * CopyUnit = IndexLength, FALSE, "roundtold")
      <4>1. At' = "roundtold"
        BY <3>5, CallBegins DEF Callback
      <4> QED
        BY <1>1, <2>4, <4>1 DEF Calls, Excepted
    <3>6. CASE Callback(TRUE, FALSE, "ended") /\ file' = "complete"
      BY <3>6 DEF Callback
    <3> QED
      BY <1>3, <2>4, NoteCases, <3>1, <3>2, <3>3, <3>4, <3>5, <3>6
  <2> QED
    BY <2>3, <2>4
<1> QED
  BY <1>2, <1>3

--------------------------------------------------------------------------------
(***************************************************************************)
(* Who frees the context.                                                   *)
(***************************************************************************)
\* A context that was not freed is read as it is.
LEMMA SeenState ==
  frees = 0 => /\ ("UserAborted" \in Seen) <=> (state = "UserAborted")
               /\ (Seen # {"UserAborted"}) <=> (state # "UserAborted")
  BY DEF Seen

\* Outside of the callback the work item only quits where it was about to, or
\* where it leaks the context.
LEMMA QuitsOutside ==
  ASSUME Types, Phases, [Next]_vars,
         ~(EnterCallback \/ SendMessage \/ LeaveCallback \/ UserCancels)
  PROVE  /\ UNCHANGED vars \/ (~Calling /\ pc' # "check")
         /\ Quits' => Leaks' \/ (Quits /\ (Leaks => Leaks'))
<1>0. kind' = kind
  BY FixedKept, DerivedKept
<1>2. CASE OpenFiles \/ WriteRecord \/ WriteFails \/ RecordsDone
  <2>1. pc' \in {"record", "enter", "index", "header"} /\ pc \in {"open", "record"}
    BY <1>2 DEF OpenFiles, WriteRecord, WriteFails, RecordsDone, Callback
  <2> QED
    BY <2>1 DEF Calling, Quits
<1>3. CASE CopyIndexRound \/ CopyIndexRest
  <2>1. pc' = "enter" /\ pc = "index"
    BY <1>3 DEF CopyIndexRound, CopyIndexRest, Callback
  <2> QED
    BY <2>1 DEF Calling, Quits
<1>4. CASE OpenFails
  <2>1. pc = "open" /\ (pc' = "enter" \/ (pc' = "ended" /\ kind = "csv")) /\ next' = next
    BY <1>4 DEF OpenFails, Callback, fileVars
  <2>2. next = 1
    BY <2>1, PlaceOutside DEF Phases, Calling
  <2> QED
    BY <1>0, <2>1, <2>2 DEF Calling, Quits, Leaks, Unopened
<1>5. CASE Failed
  <2>1. pc = "failed" /\ pc' = "ended"
    BY <1>5 DEF Failed
  <2>2. file = "written"
    BY <2>1, PlaceOutside DEF Phases, Calling
  <2> QED
    BY <1>0, <2>1, <2>2 DEF Calling, Quits, Leaks, Unopened
<1>6. CASE RecordTold \/ RoundTold \/ RestTold
  <2>1. /\ pc \in {"recordtold", "roundtold", "resttold"}
        /\ pc' \in {"record", "index", "header"} \/ (pc' = "ended" /\ cancel)
    BY <1>6 DEF RecordTold, RoundTold, RestTold
  <2>2. file = "written"
    BY <2>1, PlaceOutside DEF Phases, Calling
  <2> QED
    BY <1>0, <2>1, <2>2 DEF Calling, Quits, Leaks, Unopened
<1>7. CASE WriteHeader
  <2>1. /\ pc = "header" /\ file' = "complete"
        /\ pc' = "enter" \/ (pc' = "ended" /\ kind = "csvfiltered")
    BY <1>7 DEF WriteHeader, Callback
  <2> QED
    BY <1>0, <2>1 DEF Calling, Quits, Leaks
<1>8. CASE UNCHANGED vars
  BY <1>8 DEF vars, dataVars, fileVars, Quits, Leaks, Unopened
<1> QED
  BY NextCases, <1>2, <1>3, <1>4, <1>5, <1>6, <1>7, <1>8

LEMMA OwnerStep ==
  ASSUME Types, Phases, Calls, Owner, [Next]_vars
  PROVE  Owner'
<1>0. /\ frees \in Nat /\ note.full \in BOOLEAN /\ note.abort \in BOOLEAN
      /\ note.back \in Backs /\ dialog \in {"open", "closed"} /\ kind' = kind
  BY FixedKept, DerivedKept DEF Types, Control, Context
<1>1. CASE EnterCallback
  <2>1. pc = "enter" /\ UNCHANGED <<note, file, dialog, state, faults>>
    BY <1>1 DEF EnterCallback
  <2>2. pc' # "check"
    BY <1>0, <1>1 DEF EnterCallback, CallbackReturns, Backs
  <2>3. frees' = frees + 1 \/ (frees' = frees /\ pc' = "send")
    BY <1>1 DEF EnterCallback
  <2> QED
    BY <1>0, <2>1, <2>2, <2>3 DEF Owner, Quits
<1>2. CASE SendMessage
  <2>1. pc = "send" /\ pc' = "check" /\ UNCHANGED note /\ frees' = frees
    BY <1>2 DEF SendMessage, dialogVars
  <2>2. CASE dialog = "closed" /\ UNCHANGED dialogVars
    BY <2>1, <2>2 DEF Owner, Quits, dialogVars
  <2>3. CASE dialog = "open" /\ note.abort /\ state' = "MspAborted" /\ dialog' = dialog
    BY <2>1, <2>3 DEF Owner, Quits
  <2>4. CASE /\ dialog = "open" /\ ~note.abort /\ state' = state
             /\ dialog' = IF note.full THEN "closed" ELSE "open"
    BY <2>1, <2>4 DEF Owner, Quits
  <2> QED
    BY <1>2, <2>2, <2>3, <2>4 DEF SendMessage
<1>3. CASE LeaveCallback
  <2>1. pc = "check" /\ pc' = note.back /\ UNCHANGED <<note, file, dialog, state, faults>>
    BY <1>3 DEF LeaveCallback, CallbackReturns
  <2>2. pc' # "check" /\ Calling
    BY <1>0, <2>1 DEF Backs, Calling
  <2>3. \/ frees' = frees + 1
        \/ Seen # {"UserAborted"} /\ ~note.full /\ cancel' = note.abort /\ frees' = frees
    BY <1>3, Zenon DEF LeaveCallback, CallbackReturns
  <2>4. CASE frees' = frees + 1
    BY <1>0, <2>2, <2>4 DEF Owner
  <2>5. CASE Seen # {"UserAborted"} /\ ~note.full /\ cancel' = note.abort /\ frees' = frees
    <3> SUFFICES ASSUME frees = 0 PROVE Owner'
      BY <2>2, <2>5 DEF Owner
    <3>1. state # "UserAborted" /\ dialog = "open"
      BY <1>0, <2>5, SeenState DEF Owner
    <3>2. Quits' => note.abort
      BY <2>1, <2>2, <2>5 DEF Quits, Calls
    <3>3. note.abort => state = "MspAborted"
      BY <2>1, <3>1 DEF Owner
    <3> QED
      BY <2>1, <2>2, <2>5, <3>1, <3>2, <3>3 DEF Owner
  <2> QED
    BY <2>3, <2>4, <2>5
<1>4. CASE UserCancels
  <2>1. /\ dialog = "open" /\ dialog' = "closed"
        /\ UNCHANGED <<pc, next, note, cancel, file>>
    BY <1>4 DEF UserCancels, fileVars
  <2>2. \/ state = "MspAborted" /\ frees' = frees + 1
        \/ state # "MspAborted" /\ state' = "UserAborted" /\ frees' = frees
    BY <1>4 DEF UserCancels
  <2> QED
    BY <1>0, <2>1, <2>2 DEF Owner, Quits, Leaks, Unopened
<1>5. CASE ~(EnterCallback \/ SendMessage \/ LeaveCallback \/ UserCancels)
  <2>1. UNCHANGED <<dialog, state, frees>>
    BY <1>5, ContextKept DEF dialogVars
  <2>2. CASE ~Calling /\ pc' # "check"
    BY <1>5, <2>1, <2>2, QuitsOutside DEF Owner, Calling
  <2>3. CASE UNCHANGED vars
    BY <2>1, <2>3 DEF Owner, Quits, Leaks, Unopened, vars, dataVars, fileVars
  <2> QED
    BY <1>5, <2>2, <2>3, QuitsOutside
<1> QED
  BY <1>1, <1>2, <1>3, <1>4, <1>5

LEMMA FreedStep ==
  ASSUME Types, Phases, Calls, Owner, Freed, [Next]_vars
  PROVE  Freed'
<1>0. /\ frees \in Nat /\ note.full \in BOOLEAN /\ note.abort \in BOOLEAN
      /\ note.back \in Backs /\ dialog \in {"open", "closed"}
      /\ FullIndex' = FullIndex /\ faults \in Nat /\ (faults' = 0 => faults = 0)
  BY FixedKept, DerivedKept, FaultsGrow DEF Types, Control, Context
<1> SUFFICES ASSUME faults = 0, faults' = 0, ~FullIndex
             PROVE  /\ ~touched' /\ frees' <= 1 /\ state' # "MspAborted"
                    /\ frees' = 1 =>
                         dialog' = "closed" /\ Quits' /\ ~(pc' = "roundtold" /\ note'.full)
  BY <1>0 DEF Freed
<1>1. /\ ~touched /\ frees <= 1 /\ state # "MspAborted"
      /\ frees = 1 => dialog = "closed" /\ Quits /\ ~(pc = "roundtold" /\ note.full)
  BY DEF Freed
<1>2. Calling => /\ frees = 0 /\ ~note.abort
                 /\ note.back \in Backs \ {"open"}
                 /\ ~(note.back = "roundtold" /\ note.full)
  <2>1. Calling => ~Quits /\ At = note.back
    BY DEF Calling, Quits, At
  <2> QED
    BY <1>0, <1>1, <2>1 DEF Calls, Phases
<1>3. \* a callback that frees says so to a work item that quits
      ASSUME Calling, pc' = note.back, cancel' = TRUE, note' = note
      PROVE  Quits' /\ ~(pc' = "roundtold" /\ note'.full)
  BY <1>2, <1>3 DEF Quits, Backs
<1>4. CASE EnterCallback
  <2>1. Calling /\ UNCHANGED <<note, dialog, state>> /\ (touched' <=> touched \/ frees > 0)
    BY <1>4 DEF EnterCallback, Calling
  <2>2. frees = 0 /\ ~touched'
    BY <1>1, <1>2, <2>1
  <2>3. CASE "UserAborted" \in Seen /\ frees' = frees + 1 /\ CallbackReturns(TRUE)
    <3>1. state = "UserAborted" /\ dialog = "closed"
      BY <1>0, <2>2, <2>3, SeenState DEF Owner
    <3>2. pc' = note.back /\ cancel' = TRUE /\ note' = note
      BY <2>1, <2>3 DEF CallbackReturns
    <3>3. Quits' /\ ~(pc' = "roundtold" /\ note'.full)
      BY <1>3, <2>1, <3>2
    <3> QED
      BY <2>1, <2>2, <2>3, <3>1, <3>3
  <2>4. CASE frees' = frees
    BY <1>1, <2>1, <2>2, <2>4
  <2> QED
    BY <1>4, <2>3, <2>4 DEF EnterCallback
<1>5. CASE SendMessage
  <2>1. Calling /\ UNCHANGED <<frees, touched>>
    BY <1>5 DEF SendMessage, Calling, dialogVars
  <2>2. state' = state
    BY <1>2, <1>5, <2>1 DEF SendMessage, dialogVars
  <2> QED
    BY <1>1, <1>2, <2>1, <2>2
<1>6. CASE LeaveCallback
  <2>1. /\ pc = "check" /\ Calling /\ UNCHANGED <<note, dialog, state>>
        /\ touched' <=> touched \/ frees > 0
    BY <1>6 DEF LeaveCallback, Calling
  <2>2. frees = 0 /\ ~touched'
    BY <1>1, <1>2, <2>1
  <2>3. CASE /\ "UserAborted" \in Seen \/ note.full
             /\ frees' = frees + 1 /\ CallbackReturns(TRUE)
    <3>1. dialog = "closed"
      BY <1>0, <1>2, <2>1, <2>2, <2>3, SeenState DEF Owner
    <3>2. pc' = note.back /\ cancel' = TRUE /\ note' = note
      BY <2>1, <2>3 DEF CallbackReturns
    <3>3. Quits' /\ ~(pc' = "roundtold" /\ note'.full)
      BY <1>3, <2>1, <3>2
    <3> QED
      BY <1>1, <2>1, <2>2, <2>3, <3>1, <3>3
  <2>4. CASE frees' = frees
    BY <1>1, <2>1, <2>2, <2>4
  <2> QED
    BY <1>6, <2>3, <2>4 DEF LeaveCallback
<1>7. CASE UserCancels
  <2>1. dialog = "open" /\ (touched' <=> touched \/ frees > 0)
    BY <1>7 DEF UserCancels
  <2>2. frees = 0
    BY <1>0, <1>1, <2>1
  <2>3. state' = "UserAborted" /\ frees' = frees
    BY <1>1, <1>7 DEF UserCancels
  <2> QED
    BY <1>1, <2>1, <2>2, <2>3
<1>8. CASE ~(EnterCallback \/ SendMessage \/ LeaveCallback \/ UserCancels)
  <2>1. UNCHANGED <<dialog, state, frees, touched>>
    BY <1>8, ContextKept DEF dialogVars
  <2>2. ASSUME frees = 1
        PROVE  Quits' /\ ~(pc' = "roundtold" /\ note'.full)
    <3>1. Quits /\ ~(pc = "roundtold" /\ note.full)
      BY <1>1, <2>2
    <3>2. pc # "failed"
      BY PlaceOutside DEF Calls, Calling
    <3>3. \/ UNCHANGED <<pc, cancel, note>>
          \/ pc' = "ended"
      BY <1>8, <3>1, <3>2, NextCases DEF Quits, OpenFiles, OpenFails, WriteRecord,
         WriteFails, Failed, RecordTold, RecordsDone, CopyIndexRound, RoundTold,
         CopyIndexRest, RestTold, WriteHeader, vars
    <3> QED
      BY <3>1, <3>3 DEF Quits
  <2> QED
    BY <1>1, <2>1, <2>2
<1> QED
  BY <1>4, <1>5, <1>6, <1>7, <1>8

--------------------------------------------------------------------------------
(***************************************************************************)
(* The inductive invariant.                                                 *)
(***************************************************************************)
LEMMA InitIInv == Init => IInv
<1> SUFFICES ASSUME Init PROVE IInv
  OBVIOUS
<1>1. Types
  BY TypesInit
<1>2. /\ pc = "open" /\ next = 1 /\ from = 0 /\ to = 0 /\ note = EmptyNote
      /\ file = "absent" /\ ~barrier /\ cancel = FALSE /\ faults = 0
      /\ dialog = "open" /\ state = "Started" /\ ~told /\ frees = 0 /\ ~touched
      /\ lag = 0 /\ intact = Count
  BY DEF Init
<1>3. Copied
  BY <1>2 DEF Copied
<1>4. Pointers
  BY <1>2 DEF Pointers
<1>5. ~Calling /\ At = "open" /\ ~Quits
  BY <1>2 DEF Calling, At, Quits
<1>6. Phases /\ Calls /\ Announced
  BY <1>2, <1>5 DEF Phases, Calls, Announced
<1>7. Owner /\ Freed
  BY <1>2, <1>5 DEF Owner, Freed
<1> QED
  BY <1>1, <1>3, <1>4, <1>6, <1>7 DEF IInv

LEMMA NextIInv == IInv /\ [Next]_vars => IInv'
<1> SUFFICES ASSUME IInv, [Next]_vars PROVE IInv'
  OBVIOUS
<1>0. Types /\ Copied /\ Pointers /\ Phases /\ Calls /\ Announced /\ Owner /\ Freed
  BY DEF IInv
<1>1. Types' /\ Copied' /\ Pointers'
  BY <1>0, TypesStep, CopiedStep, PointersStep
<1>2. Phases' /\ Calls'
  BY <1>0, PhasesStep, CallsStep
<1>3. Announced'
  BY <1>0, <1>2, AnnouncedStep
<1>4. Owner' /\ Freed'
  BY <1>0, OwnerStep, FreedStep
<1> QED
  BY <1>1, <1>2, <1>3, <1>4 DEF IInv

LEMMA Inductive == Spec => []IInv
  BY InitIInv, NextIInv, PTL DEF Spec

\* Every variable of the work item, the dialog and the files stays in its range,
\* however many file calls fail: savedlg.c and the writers of mspdtl.c.
THEOREM SaveTypes == Spec => []TypeOK
<1>1. IInv => TypeOK
  BY TypesAreTypeOK DEF IInv
<1> QED
  BY <1>1, Inductive, PTL

\* A complete file has every record up to the first unnoticed failure at the place
\* that its index names, and all of them if nothing failed: of a filtered kind always,
\* of a whole report or CSV file when the session's records lie in the order of its
\* index (MspReplicateRecord, MspWriteRecordFiltered and the writers of CSV files,
\* which go on after reads and writes whose status they do not look at).
THEOREM SavedRecordsAreHeld == Spec => []SavesTheRecords
<1>1. IInv => SavesTheRecords
  <2> SUFFICES ASSUME IInv, file = "complete", kind \in Sequential => InOrder(log)
               PROVE  /\ next = Count + 1 /\ \A i \in 1 .. intact : Held(i)
                      /\ faults = 0 => intact = Count
    BY DEF SavesTheRecords
  <2>1. Types /\ Copied /\ Ordered /\ next = Count + 1
    BY DEF IInv, Phases, Ordered
  <2>2. \A i \in 1 .. intact : i \in 1 .. Count /\ i <= intact
    BY <2>1, Saved, Sizes DEF Types, Written
  <2>3. faults = 0 => intact = Count
    BY DEF IInv, Pointers
  <2> QED
    BY <2>1, <2>2, <2>3, CopiedIsHeld
<1> QED
  BY <1>1, Inductive, PTL

\* The save context of a save without faults is freed once at most and not looked at
\* afterwards, and when the work item has ended and the dialog is closed it was freed,
\* but for the kinds that leak it (SaveCallback and SaveOnCancel in savedlg.c).
THEOREM ContextIsFreedOnce == Spec => []ContextFreedOnce
<1>1. IInv => ContextFreedOnce
  <2> SUFFICES ASSUME IInv PROVE ContextFreedOnce
    OBVIOUS
  <2>1. faults = 0 /\ ~FullIndex => ~touched /\ frees <= 1
    BY DEF IInv, Freed
  <2>2. ASSUME pc = "ended", dialog = "closed", ~(frees >= 1)
        PROVE  \/ kind = "csvfiltered" /\ file = "complete"
               \/ Unopened
    <3>1. frees = 0
      BY <2>2 DEF IInv, Types, Context
    <3> QED
      BY <2>2, <3>1 DEF IInv, Owner, Quits, Leaks
  <2> QED
    BY <2>1, <2>2 DEF ContextFreedOnce
<1> QED
  BY <1>1, Inductive, PTL

\* While records of a live session are written to a report the decode thread waits
\* at MspStackTraceBarrier, and once the work item has ended it waits no more, but
\* after a whole report that was cancelled (MspReplicateRecord).
THEOREM BarrierIsCleared == Spec => []BarrierWhileSaving
<1>1. IInv => BarrierWhileSaving
  BY PlaceOutside DEF IInv, Phases, BarrierWhileSaving, Calling
<1> QED
  BY <1>1, Inductive, PTL

\* A work item that has ended leaves a complete file or none, and a complete one when
\* the dialog was told so, but for full rounds of a CSV file and of a report's index,
\* and a report whose lengths were not read (the returns of the writers in mspdtl.c, and DeleteFile).
THEOREM FileIsThereAfterwards == Spec => []FileAfterwards
<1>1. IInv => FileAfterwards
  <2> SUFFICES ASSUME IInv, pc = "ended" PROVE FileAfterwards
    BY DEF FileAfterwards
  <2>1. At = "ended"
    BY DEF At, Calling
  <2>2. file # "written"
    BY <2>1 DEF IInv, Phases
  <2>3. told /\ ~Excepted /\ lag = 0 => file = "complete"
    BY DEF IInv, Announced
  <2> QED
    BY <2>2, <2>3 DEF FileAfterwards, Excepted
<1> QED
  BY <1>1, Inductive, PTL

\* A work item that has ended leaves no file cut off and, but for a whole report
\* that was cancelled, no decode thread that waits.
THEOREM WorkItemCleansUp == Spec => []CleansUp
<1>1. BarrierWhileSaving /\ FileAfterwards => CleansUp
  BY DEF CleansUp
<1> QED
  BY <1>1, BarrierIsCleared, FileIsThereAfterwards, PTL
================================================================================
