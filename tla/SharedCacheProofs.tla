--------------------------- MODULE SharedCacheProofs ---------------------------
(***************************************************************************)
(* Safety of SharedCache for every value of the constants.  Types first:    *)
(* what a record update keeps, then one step per action, each split into    *)
(* the five groups of variables.  The invariant is the conjunction of five  *)
(* parts, each kept by every step given the parts before it: types,         *)
(* exclusion, lengths in flight, disjoint records, and counted entries.     *)
(*                                                                          *)
(* Then, as long as sequence numbers do not wrap, what the index file says: *)
(* an entry belongs to one thread until it is committed, and to nobody      *)
(* afterwards; the counted entries lie in the index file and their records  *)
(* in the data file; and all together the cache is the log of RecordLog.    *)
(***************************************************************************)
EXTENDS SharedCache, TLAPS

\* The stores to an index entry keep its fields in range.
LEMMA EntryUpdate ==
  ASSUME NEW e \in Entry, NEW n \in Nat, NEW m \in Nat
  PROVE  /\ [e EXCEPT !.Length = n, !.Offset = m] \in Entry
         /\ [e EXCEPT !.Committed = TRUE] \in Entry
<1>1. [e EXCEPT !.Length = n, !.Offset = m] \in Entry
   BY DEF Entry
<1>2. [e EXCEPT !.Committed = TRUE] \in Entry
   BY ZenonT(10) DEF Entry
<1> QED BY <1>1, <1>2
\* So do the stores to a thread's data mapping object ...
LEMMA MappingUpdate ==
  ASSUME NEW m \in Mapping, NEW a \in Int, NEW b \in Int, NEW c \in Nat
  PROVE  /\ [m EXCEPT !.lo = a, !.hi = b] \in Mapping
         /\ [m EXCEPT !.lo = a, !.hi = b, !.section = c] \in Mapping
  BY DEF Mapping
\* ... and to its index mapping object.
LEMMA ViewUpdate ==
  ASSUME NEW v \in View, NEW n \in Nat, NEW m \in Nat, NEW i \in Int
  PROVE  /\ [v EXCEPT !.length = n, !.section = m] \in View
         /\ [v EXCEPT !.view = i, !.section = m] \in View
  BY DEF View

\* The initial state has the types.
LEMMA TypeInit == Init => TypeOK
<1> SUFFICES ASSUME Init PROVE TypeOK
  OBVIOUS
<1> USE ThreadsAssumption, SizesAssumption DEF Init
<1>1. TypePage
  <2>1. SequenceFull \in BOOLEAN
    OBVIOUS
  <2> QED
    BY <2>1 DEF TypePage
<1>2. TypeFiles
  BY DEF TypeFiles, Entry, NoEntry
<1>3. TypeWriters
  BY DEF TypeWriters, Labels, Record, NoRecord, Mapping, View, Closed
<1>4. TypeIndexer
  <2>1. stop \in BOOLEAN
    OBVIOUS
  <2> QED
    BY <2>1 DEF TypeIndexer, IndexLabels
<1>5. TypeBounds
  BY DEF TypeBounds
<1> QED
  BY <1>1, <1>2, <1>3, <1>4, <1>5 DEF TypeOK

\* Every action keeps the types.
LEMMA TypeStep == TypeOK /\ [Next]_vars => TypeOK'
<1> SUFFICES ASSUME TypeOK, [Next]_vars PROVE TypeOK'
  OBVIOUS
<1> USE ThreadsAssumption, SizesAssumption
    DEF TypeOK, lengthVars, fileVars, mapVars, writerVars, indexerVars, boundVars,
        Labels, IndexLabels, Goto, Fail, Fault, Acquire, Release
<1>1. ASSUME NEW w \in Writers, NEW size \in RecordSizes, AcquireSequence(w, size) PROVE TypeOK'
  <2>1. TypePage'
    BY <1>1 DEF AcquireSequence, TypePage
  <2>2. TypeFiles'
    BY <1>1 DEF AcquireSequence, TypeFiles
  <2>3. TypeWriters'
    BY <1>1 DEF AcquireSequence, TypeWriters, Record, TypePage
  <2>4. TypeIndexer'
    BY <1>1 DEF AcquireSequence, TypeIndexer
  <2>5. TypeBounds'
    BY <1>1 DEF AcquireSequence, TypeBounds
  <2> QED
    BY <2>1, <2>2, <2>3, <2>4, <2>5
<1>2. ASSUME NEW w \in Writers, CreateDataMapping(w) PROVE TypeOK'
  <2>1. TypePage'
    BY <1>2 DEF CreateDataMapping, TypePage
  <2>2. TypeFiles'
    BY <1>2 DEF CreateDataMapping, TypeFiles
  <2>3. TypeWriters'
    <3>1. dmap' \in [Writers -> Mapping]
      BY <1>2 DEF CreateDataMapping, TypeWriters, TypeFiles, Mapping
    <3>2. pc' \in [Writers -> Labels]
      BY <1>2 DEF CreateDataMapping, TypeWriters
    <3> QED
      BY <1>2, <3>1, <3>2 DEF CreateDataMapping, TypeWriters
  <2>4. TypeIndexer'
    BY <1>2 DEF CreateDataMapping, TypeIndexer
  <2>5. TypeBounds'
    BY <1>2 DEF CreateDataMapping, TypeBounds
  <2> QED
    BY <2>1, <2>2, <2>3, <2>4, <2>5
<1>3. ASSUME NEW w \in Writers, ReadDataMappingLength(w) PROVE TypeOK'
  <2>1. TypePage'
    BY <1>3 DEF ReadDataMappingLength, TypePage
  <2>2. TypeFiles'
    BY <1>3 DEF ReadDataMappingLength, TypeFiles
  <2>3. TypeWriters'
    BY <1>3 DEF ReadDataMappingLength, TypeWriters, Mapping, TypePage
  <2>4. TypeIndexer'
    BY <1>3 DEF ReadDataMappingLength, TypeIndexer
  <2>5. TypeBounds'
    BY <1>3 DEF ReadDataMappingLength, TypeBounds
  <2> QED
    BY <2>1, <2>2, <2>3, <2>4, <2>5
<1>4. ASSUME NEW w \in Writers, CreateIndexMapping(w) PROVE TypeOK'
  <2>1. TypePage'
    BY <1>4 DEF CreateIndexMapping, TypePage
  <2>2. TypeFiles'
    BY <1>4 DEF CreateIndexMapping, TypeFiles
  <2>3. TypeWriters'
    <3>1. imap' \in [Writers -> View]
      BY <1>4 DEF CreateIndexMapping, TypeWriters, TypeFiles, View
    <3>2. pc' \in [Writers -> Labels]
      BY <1>4 DEF CreateIndexMapping, TypeWriters
    <3> QED
      BY <1>4, <3>1, <3>2 DEF CreateIndexMapping, TypeWriters
  <2>4. TypeIndexer'
    BY <1>4 DEF CreateIndexMapping, TypeIndexer
  <2>5. TypeBounds'
    BY <1>4 DEF CreateIndexMapping, TypeBounds
  <2> QED
    BY <2>1, <2>2, <2>3, <2>4, <2>5
<1>5. ASSUME NEW w \in Writers, ReadIndexMappingLength(w) PROVE TypeOK'
  <2>1. TypePage'
    BY <1>5 DEF ReadIndexMappingLength, TypePage
  <2>2. TypeFiles'
    BY <1>5 DEF ReadIndexMappingLength, TypeFiles
  <2>3. TypeWriters'
    BY <1>5 DEF ReadIndexMappingLength, TypeWriters, View, TypePage
  <2>4. TypeIndexer'
    BY <1>5 DEF ReadIndexMappingLength, TypeIndexer
  <2>5. TypeBounds'
    BY <1>5 DEF ReadIndexMappingLength, TypeBounds
  <2> QED
    BY <2>1, <2>2, <2>3, <2>4, <2>5
<1>6. ASSUME NEW w \in Writers, ReadFileLength(w) PROVE TypeOK'
  <2>1. TypePage'
    BY <1>6 DEF ReadFileLength, TypePage
  <2>2. TypeFiles'
    BY <1>6 DEF ReadFileLength, TypeFiles
  <2>3. TypeWriters'
    BY <1>6 DEF ReadFileLength, TypeWriters, TypePage
  <2>4. TypeIndexer'
    BY <1>6 DEF ReadFileLength, TypeIndexer
  <2>5. TypeBounds'
    BY <1>6 DEF ReadFileLength, TypeBounds
  <2> QED
    BY <2>1, <2>2, <2>3, <2>4, <2>5
<1>7. ASSUME NEW w \in Writers, ReadValidLength(w) PROVE TypeOK'
  <2>1. TypePage'
    BY <1>7 DEF ReadValidLength, TypePage
  <2>2. TypeFiles'
    BY <1>7 DEF ReadValidLength, TypeFiles
  <2>3. TypeWriters'
    BY <1>7 DEF ReadValidLength, TypeWriters, Record, TypePage
  <2>4. TypeIndexer'
    BY <1>7 DEF ReadValidLength, TypeIndexer
  <2>5. TypeBounds'
    BY <1>7 DEF ReadValidLength, TypeBounds
  <2> QED
    BY <2>1, <2>2, <2>3, <2>4, <2>5
<1>8. ASSUME NEW w \in Writers, ClaimPosition(w) PROVE TypeOK'
  <2>1. TypePage'
    BY <1>8 DEF ClaimPosition, TypePage, TypeWriters, End, Record
  <2>2. TypeFiles'
    BY <1>8 DEF ClaimPosition, TypeFiles
  <2>3. TypeWriters'
    BY <1>8 DEF ClaimPosition, TypeWriters
  <2>4. TypeIndexer'
    BY <1>8 DEF ClaimPosition, TypeIndexer
  <2>5. TypeBounds'
    BY <1>8 DEF ClaimPosition, TypeBounds
  <2> QED
    BY <2>1, <2>2, <2>3, <2>4, <2>5
<1>9. ASSUME NEW w \in Writers, LockDataLength(w) PROVE TypeOK'
  <2>1. TypePage'
    BY <1>9 DEF LockDataLength, TypePage
  <2>2. TypeFiles'
    BY <1>9 DEF LockDataLength, TypeFiles
  <2>3. TypeWriters'
    BY <1>9 DEF LockDataLength, TypeWriters
  <2>4. TypeIndexer'
    BY <1>9 DEF LockDataLength, TypeIndexer
  <2>5. TypeBounds'
    BY <1>9 DEF LockDataLength, TypeBounds
  <2> QED
    BY <2>1, <2>2, <2>3, <2>4, <2>5
<1>10. ASSUME NEW w \in Writers, ExtendDataFile(w) PROVE TypeOK'
  <2>1. TypePage'
    BY <1>10 DEF ExtendDataFile, TypePage
  <2>2. TypeFiles'
    BY <1>10 DEF ExtendDataFile, TypeFiles, TypeWriters
  <2>3. TypeWriters'
    BY <1>10 DEF ExtendDataFile, TypeWriters
  <2>4. TypeIndexer'
    BY <1>10 DEF ExtendDataFile, TypeIndexer
  <2>5. TypeBounds'
    BY <1>10 DEF ExtendDataFile, TypeBounds
  <2> QED
    BY <2>1, <2>2, <2>3, <2>4, <2>5
<1>11. ASSUME NEW w \in Writers, PublishDataLength(w) PROVE TypeOK'
  <2>1. TypePage'
    BY <1>11 DEF PublishDataLength, TypePage, TypeWriters
  <2>2. TypeFiles'
    BY <1>11 DEF PublishDataLength, TypeFiles
  <2>3. TypeWriters'
    BY <1>11 DEF PublishDataLength, TypeWriters
  <2>4. TypeIndexer'
    BY <1>11 DEF PublishDataLength, TypeIndexer
  <2>5. TypeBounds'
    BY <1>11 DEF PublishDataLength, TypeBounds
  <2> QED
    BY <2>1, <2>2, <2>3, <2>4, <2>5
<1>12. ASSUME NEW w \in Writers, UnlockDataLength(w) PROVE TypeOK'
  <2>1. TypePage'
    BY <1>12 DEF UnlockDataLength, TypePage
  <2>2. TypeFiles'
    BY <1>12 DEF UnlockDataLength, TypeFiles
  <2>3. TypeWriters'
    BY <1>12 DEF UnlockDataLength, TypeWriters
  <2>4. TypeIndexer'
    BY <1>12 DEF UnlockDataLength, TypeIndexer
  <2>5. TypeBounds'
    BY <1>12 DEF UnlockDataLength, TypeBounds
  <2> QED
    BY <2>1, <2>2, <2>3, <2>4, <2>5
<1>13. ASSUME NEW w \in Writers, CopyRecord(w) PROVE TypeOK'
  <2>1. TypePage'
    BY <1>13 DEF CopyRecord, CopyTo, TypePage
  <2>2. TypeFiles'
    BY <1>13 DEF CopyRecord, CopyTo, TypeFiles, TypeWriters
  <2>3. TypeWriters'
    BY <1>13 DEF CopyRecord, CopyTo, TypeWriters
  <2>4. TypeIndexer'
    BY <1>13 DEF CopyRecord, CopyTo, TypeIndexer
  <2>5. TypeBounds'
    BY <1>13 DEF CopyRecord, CopyTo, TypeBounds
  <2> QED
    BY <2>1, <2>2, <2>3, <2>4, <2>5
<1>14. ASSUME NEW w \in Writers, MapDataView(w) PROVE TypeOK'
  <2>1. TypePage'
    BY <1>14 DEF MapDataView, TypePage
  <2>2. TypeFiles'
    BY <1>14 DEF MapDataView, TypeFiles, TypeWriters, CopyTo
  <2>3. TypeWriters'
    <3>1. /\ RoundDown(rec[w].start, DataMapUnit) \in Int
          /\ Min2(RoundUp(End(w), DataMapUnit), dmap[w].length) \in Int
      BY DEF TypeWriters, Record, Mapping, RoundDown, RoundUp, Min2, End
    <3>2. dmap' \in [Writers -> Mapping]
      <4> DEFINE lo == RoundDown(rec[w].start, DataMapUnit)
                 hi == Min2(RoundUp(End(w), DataMapUnit), dmap[w].length)
                 mapped   == [dmap[w] EXCEPT !.lo = lo, !.hi = hi]
                 unmapped == [dmap[w] EXCEPT !.lo = 0, !.hi = 0]
      <4>1. mapped \in Mapping /\ unmapped \in Mapping
        <5>1. dmap[w] \in Mapping /\ 0 \in Int
          BY DEF TypeWriters
        <5> QED
          BY <5>1, <3>1, MappingUpdate, Zenon
      <4>2. \/ dmap' = [dmap EXCEPT ![w] = mapped]
            \/ dmap' = [dmap EXCEPT ![w] = unmapped]
        BY <1>14 DEF MapDataView
      <4> HIDE DEF mapped, unmapped
      <4> QED
        BY <4>1, <4>2 DEF TypeWriters
    <3>3. pc' \in [Writers -> Labels]
      BY <1>14 DEF MapDataView, TypeWriters
    <3> QED
      BY <1>14, <3>2, <3>3 DEF MapDataView, TypeWriters
  <2>4. TypeIndexer'
    BY <1>14 DEF MapDataView, TypeIndexer
  <2>5. TypeBounds'
    BY <1>14 DEF MapDataView, TypeBounds
  <2> QED
    BY <2>1, <2>2, <2>3, <2>4, <2>5
<1>15. ASSUME NEW w \in Writers, RecreateDataMapping(w) PROVE TypeOK'
  <2>1. TypePage'
    BY <1>15 DEF RecreateDataMapping, TypePage
  <2>2. TypeFiles'
    BY <1>15 DEF RecreateDataMapping, TypeFiles
  <2>3. TypeWriters'
    <3>1. dmap' \in [Writers -> Mapping]
      <4> DEFINE recreated == [dmap[w] EXCEPT !.lo = 0, !.hi = 0, !.section = dataEof]
                 closed    == [dmap[w] EXCEPT !.lo = 0, !.hi = 0, !.section = Closed]
      <4>1. dmap[w] \in Mapping /\ 0 \in Int /\ dataEof \in Nat /\ Closed \in Nat
        BY DEF TypeWriters, TypeFiles, Closed
      <4>2. recreated \in Mapping /\ closed \in Mapping
        BY <4>1, MappingUpdate, Zenon
      <4>3. dmap' = [dmap EXCEPT ![w] = recreated] \/ dmap' = [dmap EXCEPT ![w] = closed]
        BY <1>15 DEF RecreateDataMapping
      <4> HIDE DEF recreated, closed
      <4> QED
        BY <4>2, <4>3 DEF TypeWriters
    <3>2. pc' \in [Writers -> Labels]
      BY <1>15 DEF RecreateDataMapping, TypeWriters
    <3> QED
      BY <1>15, <3>1, <3>2 DEF RecreateDataMapping, TypeWriters
  <2>4. TypeIndexer'
    BY <1>15 DEF RecreateDataMapping, TypeIndexer
  <2>5. TypeBounds'
    BY <1>15 DEF RecreateDataMapping, TypeBounds
  <2> QED
    BY <2>1, <2>2, <2>3, <2>4, <2>5
<1>16. ASSUME NEW w \in Writers, ReadRecreatedLength(w) PROVE TypeOK'
  <2>1. TypePage'
    BY <1>16 DEF ReadRecreatedLength, TypePage
  <2>2. TypeFiles'
    BY <1>16 DEF ReadRecreatedLength, TypeFiles
  <2>3. TypeWriters'
    BY <1>16 DEF ReadRecreatedLength, TypeWriters, Mapping, TypePage
  <2>4. TypeIndexer'
    BY <1>16 DEF ReadRecreatedLength, TypeIndexer
  <2>5. TypeBounds'
    BY <1>16 DEF ReadRecreatedLength, TypeBounds
  <2> QED
    BY <2>1, <2>2, <2>3, <2>4, <2>5
<1>17. ASSUME NEW w \in Writers, FillEntry(w) PROVE TypeOK'
  <2>1. TypePage'
    BY <1>17 DEF FillEntry, TypePage
  <2>2. TypeFiles'
    <3> DEFINE entry == [index[Location(w)] EXCEPT !.Length = rec[w].size,
                                               !.Offset = rec[w].start % OffsetModulus]
    <3>1. Location(w) \in Slots
      BY DEF TypeWriters, Record, Location, Slots
    <3>2. entry \in Entry
      <4>1. index[Location(w)] \in Entry
        BY <3>1 DEF TypeFiles
      <4>2. rec[w].size \in Nat /\ rec[w].start % OffsetModulus \in Nat
        BY DEF TypeWriters, Record
      <4> QED
        BY <4>1, <4>2, EntryUpdate, Zenon
    <3>3. index' = [index EXCEPT ![Location(w)] = entry]
      BY <1>17, <3>1 DEF FillEntry, TypeFiles
    <3> HIDE DEF entry
    <3> QED
      BY <1>17, <3>1, <3>2, <3>3 DEF FillEntry, TypeFiles
  <2>3. TypeWriters'
    BY <1>17 DEF FillEntry, TypeWriters
  <2>4. TypeIndexer'
    BY <1>17 DEF FillEntry, TypeIndexer
  <2>5. TypeBounds'
    BY <1>17 DEF FillEntry, TypeBounds
  <2> QED
    BY <2>1, <2>2, <2>3, <2>4, <2>5
<1>18. ASSUME NEW w \in Writers, CommitEntry(w) PROVE TypeOK'
  <2>1. TypePage'
    BY <1>18 DEF CommitEntry, TypePage
  <2>2. TypeFiles'
    <3> DEFINE entry == [index[Location(w)] EXCEPT !.Committed = TRUE]
    <3>1. Location(w) \in Slots
      BY DEF TypeWriters, Record, Location, Slots
    <3>2. entry \in Entry
      <4>1. index[Location(w)] \in Entry
        BY <3>1 DEF TypeFiles
      <4>2. rec[w].size \in Nat /\ rec[w].start % OffsetModulus \in Nat
        BY DEF TypeWriters, Record
      <4> QED
        BY <4>1, <4>2, EntryUpdate, Zenon
    <3>3. index' = [index EXCEPT ![Location(w)] = entry]
      BY <1>18, <3>1 DEF CommitEntry, TypeFiles
    <3> HIDE DEF entry
    <3> QED
      BY <1>18, <3>1, <3>2, <3>3 DEF CommitEntry, TypeFiles
  <2>3. TypeWriters'
    BY <1>18 DEF CommitEntry, TypeWriters, Record, NoRecord
  <2>4. TypeIndexer'
    BY <1>18 DEF CommitEntry, TypeIndexer
  <2>5. TypeBounds'
    BY <1>18 DEF CommitEntry, TypeBounds
  <2> QED
    BY <2>1, <2>2, <2>3, <2>4, <2>5
<1>19. ASSUME NEW w \in Writers, MapIndexView(w) PROVE TypeOK'
  <2>1. TypePage'
    BY <1>19 DEF MapIndexView, TypePage
  <2>2. TypeFiles'
    BY <1>19 DEF MapIndexView, TypeFiles
  <2>3. TypeWriters'
    <3>1. Segment(Location(w)) \in Int
      BY DEF TypeWriters, Record, Segment, Location
    <3>2. imap' \in [Writers -> View]
      BY <1>19, <3>1 DEF MapIndexView, TypeWriters, View
    <3>3. pc' \in [Writers -> Labels]
      BY <1>19 DEF MapIndexView, TypeWriters
    <3> QED
      BY <1>19, <3>2, <3>3 DEF MapIndexView, TypeWriters
  <2>4. TypeIndexer'
    BY <1>19 DEF MapIndexView, TypeIndexer
  <2>5. TypeBounds'
    BY <1>19 DEF MapIndexView, TypeBounds
  <2> QED
    BY <2>1, <2>2, <2>3, <2>4, <2>5
<1>20. ASSUME NEW w \in Writers, CloseIndexMapping(w) PROVE TypeOK'
  <2>1. TypePage'
    BY <1>20 DEF CloseIndexMapping, TypePage
  <2>2. TypeFiles'
    BY <1>20 DEF CloseIndexMapping, TypeFiles
  <2>3. TypeWriters'
    <3>1. imap' \in [Writers -> View]
      <4> DEFINE closed == [imap[w] EXCEPT !.view = -1, !.section = Closed]
      <4>1. imap[w] \in View /\ -1 \in Int /\ Closed \in Nat
        BY DEF TypeWriters, Closed
      <4>2. closed \in View
        BY <4>1, ViewUpdate, Zenon
      <4>3. imap' = [imap EXCEPT ![w] = closed]
        BY <1>20 DEF CloseIndexMapping
      <4> HIDE DEF closed
      <4> QED
        BY <4>2, <4>3 DEF TypeWriters
    <3>2. pc' \in [Writers -> Labels]
      BY <1>20 DEF CloseIndexMapping, TypeWriters
    <3>3. len' \in [Writers -> Nat]
      BY <1>20 DEF CloseIndexMapping, TypeWriters, TypePage
    <3> QED
      BY <1>20, <3>1, <3>2, <3>3 DEF CloseIndexMapping, TypeWriters
  <2>4. TypeIndexer'
    BY <1>20 DEF CloseIndexMapping, TypeIndexer
  <2>5. TypeBounds'
    BY <1>20 DEF CloseIndexMapping, TypeBounds
  <2> QED
    BY <2>1, <2>2, <2>3, <2>4, <2>5
<1>21. ASSUME NEW w \in Writers, LockIndexLength(w) PROVE TypeOK'
  <2>1. TypePage'
    BY <1>21 DEF LockIndexLength, TypePage
  <2>2. TypeFiles'
    BY <1>21 DEF LockIndexLength, TypeFiles
  <2>3. TypeWriters'
    BY <1>21 DEF LockIndexLength, TypeWriters
  <2>4. TypeIndexer'
    BY <1>21 DEF LockIndexLength, TypeIndexer
  <2>5. TypeBounds'
    BY <1>21 DEF LockIndexLength, TypeBounds
  <2> QED
    BY <2>1, <2>2, <2>3, <2>4, <2>5
<1>22. ASSUME NEW w \in Writers, ExtendIndexFile(w) PROVE TypeOK'
  <2>1. TypePage'
    BY <1>22 DEF ExtendIndexFile, IndexAlreadyExtended, IndexSequenceFull, IndexExtended, TypePage
  <2>2. TypeFiles'
    BY <1>22 DEF ExtendIndexFile, IndexAlreadyExtended, IndexSequenceFull, IndexExtended, TypeFiles, TypePage
  <2>3. TypeWriters'
    BY <1>22 DEF ExtendIndexFile, IndexAlreadyExtended, IndexSequenceFull, IndexExtended, TypeWriters, TypePage
  <2>4. TypeIndexer'
    BY <1>22 DEF ExtendIndexFile, IndexAlreadyExtended, IndexSequenceFull, IndexExtended, TypeIndexer
  <2>5. TypeBounds'
    BY <1>22 DEF ExtendIndexFile, IndexAlreadyExtended, IndexSequenceFull, IndexExtended, TypeBounds
  <2> QED
    BY <2>1, <2>2, <2>3, <2>4, <2>5
<1>23. ASSUME NEW w \in Writers, PublishIndexLength(w) PROVE TypeOK'
  <2>1. TypePage'
    BY <1>23 DEF PublishIndexLength, TypePage, TypeWriters
  <2>2. TypeFiles'
    BY <1>23 DEF PublishIndexLength, TypeFiles
  <2>3. TypeWriters'
    BY <1>23 DEF PublishIndexLength, TypeWriters
  <2>4. TypeIndexer'
    BY <1>23 DEF PublishIndexLength, TypeIndexer
  <2>5. TypeBounds'
    BY <1>23 DEF PublishIndexLength, TypeBounds
  <2> QED
    BY <2>1, <2>2, <2>3, <2>4, <2>5
<1>24. ASSUME NEW w \in Writers, UnlockIndexLength(w) PROVE TypeOK'
  <2>1. TypePage'
    BY <1>24 DEF UnlockIndexLength, TypePage
  <2>2. TypeFiles'
    BY <1>24 DEF UnlockIndexLength, TypeFiles
  <2>3. TypeWriters'
    BY <1>24 DEF UnlockIndexLength, TypeWriters
  <2>4. TypeIndexer'
    BY <1>24 DEF UnlockIndexLength, TypeIndexer
  <2>5. TypeBounds'
    BY <1>24 DEF UnlockIndexLength, TypeBounds
  <2> QED
    BY <2>1, <2>2, <2>3, <2>4, <2>5
<1>25. ASSUME NEW w \in Writers, RecreateIndexMapping(w) PROVE TypeOK'
  <2>1. TypePage'
    BY <1>25 DEF RecreateIndexMapping, TypePage
  <2>2. TypeFiles'
    BY <1>25 DEF RecreateIndexMapping, TypeFiles
  <2>3. TypeWriters'
    <3>1. imap' \in [Writers -> View]
      <4> DEFINE remapped == [imap[w] EXCEPT !.length = len[w], !.section = indexEof]
      <4>1. imap[w] \in View /\ len[w] \in Nat /\ indexEof \in Nat
        BY DEF TypeWriters, TypeFiles
      <4>2. remapped \in View
        BY <4>1, 0 \in Int, ViewUpdate, Zenon
      <4>3. imap' = [imap EXCEPT ![w] = remapped] \/ imap' = imap
        BY <1>25 DEF RecreateIndexMapping
      <4> HIDE DEF remapped
      <4> QED
        BY <4>2, <4>3 DEF TypeWriters
    <3>2. pc' \in [Writers -> Labels]
      BY <1>25 DEF RecreateIndexMapping, TypeWriters
    <3> QED
      BY <1>25, <3>1, <3>2 DEF RecreateIndexMapping, TypeWriters
  <2>4. TypeIndexer'
    BY <1>25 DEF RecreateIndexMapping, TypeIndexer
  <2>5. TypeBounds'
    BY <1>25 DEF RecreateIndexMapping, TypeBounds
  <2> QED
    BY <2>1, <2>2, <2>3, <2>4, <2>5
<1>26. ASSUME NEW w \in Writers, Die(w) PROVE TypeOK'
  <2>1. TypePage'
    BY <1>26 DEF Die, TypePage
  <2>2. TypeFiles'
    BY <1>26 DEF Die, TypeFiles
  <2>3. TypeWriters'
    BY <1>26 DEF Die, TypeWriters
  <2>4. TypeIndexer'
    BY <1>26 DEF Die, TypeIndexer
  <2>5. TypeBounds'
    BY <1>26 DEF Die, TypeBounds
  <2> QED
    BY <2>1, <2>2, <2>3, <2>4, <2>5
<1>27. ASSUME TimerTick PROVE TypeOK'
  <2>1. TypePage'
    BY <1>27 DEF TimerTick, TypePage
  <2>2. TypeFiles'
    BY <1>27 DEF TimerTick, TypeFiles
  <2>3. TypeWriters'
    BY <1>27 DEF TimerTick, TypeWriters
  <2>4. TypeIndexer'
    BY <1>27 DEF TimerTick, TypeIndexer
  <2>5. TypeBounds'
    BY <1>27 DEF TimerTick, TypeBounds
  <2> QED
    BY <2>1, <2>2, <2>3, <2>4, <2>5
<1>28. ASSUME ScanEntry PROVE TypeOK'
  <2>1. TypePage'
    BY <1>28 DEF ScanEntry, TypePage
  <2>2. TypeFiles'
    BY <1>28 DEF ScanEntry, TypeFiles
  <2>3. TypeWriters'
    BY <1>28 DEF ScanEntry, TypeWriters
  <2>4. TypeIndexer'
    BY <1>28 DEF ScanEntry, TypeIndexer
  <2>5. TypeBounds'
    BY <1>28 DEF ScanEntry, TypeBounds
  <2> QED
    BY <2>1, <2>2, <2>3, <2>4, <2>5
<1>29. ASSUME PublishCount PROVE TypeOK'
  <2>1. TypePage'
    BY <1>29 DEF PublishCount, TypePage
  <2>2. TypeFiles'
    BY <1>29 DEF PublishCount, TypeFiles
  <2>3. TypeWriters'
    BY <1>29 DEF PublishCount, TypeWriters
  <2>4. TypeIndexer'
    BY <1>29 DEF PublishCount, TypeIndexer
  <2>5. TypeBounds'
    BY <1>29 DEF PublishCount, TypeBounds
  <2> QED
    BY <2>1, <2>2, <2>3, <2>4, <2>5
<1>30. ASSUME SlideView PROVE TypeOK'
  <2>1. TypePage'
    BY <1>30 DEF SlideView, TypePage
  <2>2. TypeFiles'
    BY <1>30 DEF SlideView, TypeFiles
  <2>3. TypeWriters'
    BY <1>30 DEF SlideView, TypeWriters
  <2>4. TypeIndexer'
    BY <1>30 DEF SlideView, TypeIndexer
  <2>5. TypeBounds'
    BY <1>30 DEF SlideView, TypeBounds
  <2> QED
    BY <2>1, <2>2, <2>3, <2>4, <2>5
<1>31. ASSUME ReadIndexLength PROVE TypeOK'
  <2>1. TypePage'
    BY <1>31 DEF ReadIndexLength, TypePage
  <2>2. TypeFiles'
    BY <1>31 DEF ReadIndexLength, TypeFiles
  <2>3. TypeWriters'
    BY <1>31 DEF ReadIndexLength, TypeWriters
  <2>4. TypeIndexer'
    BY <1>31 DEF ReadIndexLength, TypeIndexer, TypePage
  <2>5. TypeBounds'
    BY <1>31 DEF ReadIndexLength, TypeBounds
  <2> QED
    BY <2>1, <2>2, <2>3, <2>4, <2>5
<1>32. ASSUME LockLength PROVE TypeOK'
  <2>1. TypePage'
    BY <1>32 DEF LockLength, TypePage
  <2>2. TypeFiles'
    BY <1>32 DEF LockLength, TypeFiles
  <2>3. TypeWriters'
    BY <1>32 DEF LockLength, TypeWriters
  <2>4. TypeIndexer'
    BY <1>32 DEF LockLength, TypeIndexer
  <2>5. TypeBounds'
    BY <1>32 DEF LockLength, TypeBounds
  <2> QED
    BY <2>1, <2>2, <2>3, <2>4, <2>5
<1>33. ASSUME IndexerExtends PROVE TypeOK'
  <2>1. TypePage'
    BY <1>33 DEF IndexerExtends, TypePage
  <2>2. TypeFiles'
    BY <1>33 DEF IndexerExtends, TypeFiles, TypePage
  <2>3. TypeWriters'
    BY <1>33 DEF IndexerExtends, TypeWriters
  <2>4. TypeIndexer'
    BY <1>33 DEF IndexerExtends, TypeIndexer, TypePage
  <2>5. TypeBounds'
    BY <1>33 DEF IndexerExtends, TypeBounds
  <2> QED
    BY <2>1, <2>2, <2>3, <2>4, <2>5
<1>34. ASSUME IndexerPublishes PROVE TypeOK'
  <2>1. TypePage'
    BY <1>34 DEF IndexerPublishes, TypePage, TypeIndexer
  <2>2. TypeFiles'
    BY <1>34 DEF IndexerPublishes, TypeFiles
  <2>3. TypeWriters'
    BY <1>34 DEF IndexerPublishes, TypeWriters
  <2>4. TypeIndexer'
    BY <1>34 DEF IndexerPublishes, TypeIndexer
  <2>5. TypeBounds'
    BY <1>34 DEF IndexerPublishes, TypeBounds
  <2> QED
    BY <2>1, <2>2, <2>3, <2>4, <2>5
<1>35. ASSUME UnlockLength PROVE TypeOK'
  <2>1. TypePage'
    BY <1>35 DEF UnlockLength, TypePage
  <2>2. TypeFiles'
    BY <1>35 DEF UnlockLength, TypeFiles
  <2>3. TypeWriters'
    BY <1>35 DEF UnlockLength, TypeWriters
  <2>4. TypeIndexer'
    BY <1>35 DEF UnlockLength, TypeIndexer
  <2>5. TypeBounds'
    BY <1>35 DEF UnlockLength, TypeBounds
  <2> QED
    BY <2>1, <2>2, <2>3, <2>4, <2>5
<1>36. ASSUME RemapIndex PROVE TypeOK'
  <2>1. TypePage'
    BY <1>36 DEF RemapIndex, TypePage
  <2>2. TypeFiles'
    BY <1>36 DEF RemapIndex, TypeFiles
  <2>3. TypeWriters'
    BY <1>36 DEF RemapIndex, TypeWriters
  <2>4. TypeIndexer'
    BY <1>36 DEF RemapIndex, TypeIndexer, TypeFiles
  <2>5. TypeBounds'
    BY <1>36 DEF RemapIndex, TypeBounds
  <2> QED
    BY <2>1, <2>2, <2>3, <2>4, <2>5
<1>37. ASSUME StopEvent PROVE TypeOK'
  <2>1. TypePage'
    BY <1>37 DEF StopEvent, TypePage
  <2>2. TypeFiles'
    BY <1>37 DEF StopEvent, TypeFiles
  <2>3. TypeWriters'
    BY <1>37 DEF StopEvent, TypeWriters
  <2>4. TypeIndexer'
    BY <1>37 DEF StopEvent, TypeIndexer
  <2>5. TypeBounds'
    BY <1>37 DEF StopEvent, TypeBounds
  <2> QED
    BY <2>1, <2>2, <2>3, <2>4, <2>5
<1>38. ASSUME RequestStop PROVE TypeOK'
  <2>1. TypePage'
    BY <1>38 DEF RequestStop, TypePage
  <2>2. TypeFiles'
    BY <1>38 DEF RequestStop, TypeFiles
  <2>3. TypeWriters'
    BY <1>38 DEF RequestStop, TypeWriters
  <2>4. TypeIndexer'
    BY <1>38 DEF RequestStop, TypeIndexer
  <2>5. TypeBounds'
    BY <1>38 DEF RequestStop, TypeBounds
  <2> QED
    BY <2>1, <2>2, <2>3, <2>4, <2>5
<1>39. CASE UNCHANGED vars
  BY <1>39 DEF vars, TypePage, TypeFiles, TypeWriters, TypeIndexer, TypeBounds, Slots
<1> HIDE DEF Fault
<1> QED
  BY <1>1, <1>2, <1>3, <1>4, <1>5, <1>6, <1>7, <1>8, <1>9, <1>10,
     <1>11, <1>12, <1>13, <1>14, <1>15, <1>16, <1>17, <1>18, <1>19, <1>20,
     <1>21, <1>22, <1>23, <1>24, <1>25, <1>26, <1>27, <1>28, <1>29, <1>30,
     <1>31, <1>32, <1>33, <1>34, <1>35, <1>36, <1>37, <1>38, <1>39
  DEF Next, WriterStep, IndexerStep
-----------------------------------------------------------------------------

\* Every step keeps the spin lock exclusive: it is entered only when free.
LEMMA LockStep ==
  TypeOK /\ ExtensionsExclusive /\ [Next]_vars => ExtensionsExclusive'
<1> SUFFICES ASSUME TypeOK, ExtensionsExclusive, [Next]_vars
             PROVE  ExtensionsExclusive'
  OBVIOUS
<1>0. /\ pc \in [Writers -> Labels]
      /\ \A w \in Writers : w # NoThread /\ w # IndexThread
      /\ IndexThread # NoThread
  BY ThreadsAssumption DEF TypeOK, TypeWriters
<1> USE <1>0 DEF ExtensionsExclusive, DataCritical, IndexCritical, IndexerCritical,
               lengthVars, fileVars, mapVars, writerVars, indexerVars, boundVars,
               Goto, Fail, Acquire, Release
<1>1. ASSUME NEW w \in Writers, NEW size \in RecordSizes, AcquireSequence(w, size) PROVE ExtensionsExclusive'
  BY <1>1 DEF AcquireSequence
<1>2. ASSUME NEW w \in Writers, CreateDataMapping(w) PROVE ExtensionsExclusive'
  BY <1>2 DEF CreateDataMapping
<1>3. ASSUME NEW w \in Writers, ReadDataMappingLength(w) PROVE ExtensionsExclusive'
  BY <1>3 DEF ReadDataMappingLength
<1>4. ASSUME NEW w \in Writers, CreateIndexMapping(w) PROVE ExtensionsExclusive'
  BY <1>4 DEF CreateIndexMapping
<1>5. ASSUME NEW w \in Writers, ReadIndexMappingLength(w) PROVE ExtensionsExclusive'
  BY <1>5 DEF ReadIndexMappingLength
<1>6. ASSUME NEW w \in Writers, ReadFileLength(w) PROVE ExtensionsExclusive'
  BY <1>6 DEF ReadFileLength
<1>7. ASSUME NEW w \in Writers, ReadValidLength(w) PROVE ExtensionsExclusive'
  BY <1>7 DEF ReadValidLength
<1>8. ASSUME NEW w \in Writers, ClaimPosition(w) PROVE ExtensionsExclusive'
  BY <1>8 DEF ClaimPosition
<1>9. ASSUME NEW w \in Writers, LockDataLength(w) PROVE ExtensionsExclusive'
  BY <1>9 DEF LockDataLength
<1>10. ASSUME NEW w \in Writers, ExtendDataFile(w) PROVE ExtensionsExclusive'
  BY <1>10 DEF ExtendDataFile
<1>11. ASSUME NEW w \in Writers, PublishDataLength(w) PROVE ExtensionsExclusive'
  BY <1>11 DEF PublishDataLength
<1>12. ASSUME NEW w \in Writers, UnlockDataLength(w) PROVE ExtensionsExclusive'
  BY <1>12 DEF UnlockDataLength
<1>13. ASSUME NEW w \in Writers, CopyRecord(w) PROVE ExtensionsExclusive'
  BY <1>13 DEF CopyRecord
<1>14. ASSUME NEW w \in Writers, MapDataView(w) PROVE ExtensionsExclusive'
  BY <1>14 DEF MapDataView
<1>15. ASSUME NEW w \in Writers, RecreateDataMapping(w) PROVE ExtensionsExclusive'
  BY <1>15 DEF RecreateDataMapping
<1>16. ASSUME NEW w \in Writers, ReadRecreatedLength(w) PROVE ExtensionsExclusive'
  BY <1>16 DEF ReadRecreatedLength
<1>17. ASSUME NEW w \in Writers, FillEntry(w) PROVE ExtensionsExclusive'
  BY <1>17 DEF FillEntry
<1>18. ASSUME NEW w \in Writers, CommitEntry(w) PROVE ExtensionsExclusive'
  BY <1>18 DEF CommitEntry
<1>19. ASSUME NEW w \in Writers, MapIndexView(w) PROVE ExtensionsExclusive'
  BY <1>19 DEF MapIndexView
<1>20. ASSUME NEW w \in Writers, CloseIndexMapping(w) PROVE ExtensionsExclusive'
  BY <1>20 DEF CloseIndexMapping
<1>21. ASSUME NEW w \in Writers, LockIndexLength(w) PROVE ExtensionsExclusive'
  BY <1>21 DEF LockIndexLength
<1>22. ASSUME NEW w \in Writers, ExtendIndexFile(w) PROVE ExtensionsExclusive'
  BY <1>22 DEF ExtendIndexFile, IndexAlreadyExtended, IndexSequenceFull, IndexExtended
<1>23. ASSUME NEW w \in Writers, PublishIndexLength(w) PROVE ExtensionsExclusive'
  BY <1>23 DEF PublishIndexLength
<1>24. ASSUME NEW w \in Writers, UnlockIndexLength(w) PROVE ExtensionsExclusive'
  BY <1>24 DEF UnlockIndexLength
<1>25. ASSUME NEW w \in Writers, RecreateIndexMapping(w) PROVE ExtensionsExclusive'
  BY <1>25 DEF RecreateIndexMapping
<1>26. ASSUME NEW w \in Writers, Die(w) PROVE ExtensionsExclusive'
  BY <1>26 DEF Die
<1>27. ASSUME TimerTick PROVE ExtensionsExclusive'
  BY <1>27 DEF TimerTick
<1>28. ASSUME ScanEntry PROVE ExtensionsExclusive'
  BY <1>28 DEF ScanEntry
<1>29. ASSUME PublishCount PROVE ExtensionsExclusive'
  BY <1>29 DEF PublishCount
<1>30. ASSUME SlideView PROVE ExtensionsExclusive'
  BY <1>30 DEF SlideView
<1>31. ASSUME ReadIndexLength PROVE ExtensionsExclusive'
  BY <1>31 DEF ReadIndexLength
<1>32. ASSUME LockLength PROVE ExtensionsExclusive'
  BY <1>32 DEF LockLength
<1>33. ASSUME IndexerExtends PROVE ExtensionsExclusive'
  BY <1>33 DEF IndexerExtends
<1>34. ASSUME IndexerPublishes PROVE ExtensionsExclusive'
  BY <1>34 DEF IndexerPublishes
<1>35. ASSUME UnlockLength PROVE ExtensionsExclusive'
  BY <1>35 DEF UnlockLength
<1>36. ASSUME RemapIndex PROVE ExtensionsExclusive'
  BY <1>36 DEF RemapIndex
<1>37. ASSUME StopEvent PROVE ExtensionsExclusive'
  BY <1>37 DEF StopEvent
<1>38. ASSUME RequestStop PROVE ExtensionsExclusive'
  BY <1>38 DEF RequestStop
<1>39. CASE UNCHANGED vars
  BY <1>39 DEF vars
<1> QED
  BY <1>1, <1>2, <1>3, <1>4, <1>5, <1>6, <1>7, <1>8, <1>9, <1>10,
     <1>11, <1>12, <1>13, <1>14, <1>15, <1>16, <1>17, <1>18, <1>19, <1>20,
     <1>21, <1>22, <1>23, <1>24, <1>25, <1>26, <1>27, <1>28, <1>29, <1>30,
     <1>31, <1>32, <1>33, <1>34, <1>35, <1>36, <1>37, <1>38, <1>39
  DEF Next, WriterStep, IndexerStep

\* The control points between the re-check of a length under the lock and
\* its publication.
Critical == {"dataextend", "datapublish", "indexextend", "indexpublish"}

\* Every step keeps the lengths in flight consistent; the two critical
\* sections need the exclusion proved above.
LEMMA LengthStep ==
  TypeOK /\ ExtensionsExclusive /\ LengthsInFlight /\ [Next]_vars => LengthsInFlight'
<1> SUFFICES ASSUME TypeOK, ExtensionsExclusive, LengthsInFlight, [Next]_vars
             PROVE  LengthsInFlight'
  OBVIOUS
<1>0. /\ pc \in [Writers -> Labels]
      /\ len \in [Writers -> Nat]
      /\ rec \in [Writers -> Record]
      /\ \A w \in Writers : rec[w].start \in Nat /\ rec[w].size \in Nat
      /\ DataValidLength \in Nat /\ DataFileLength \in Nat /\ IndexFileLength \in Nat
      /\ dataEof \in Nat /\ indexEof \in Nat /\ xlen \in Nat
      /\ DataIncrement \in Nat /\ IndexIncrement \in Nat
      /\ IndexThread \notin Writers
  BY ThreadsAssumption, SizesAssumption
  DEF TypeOK, TypeWriters, TypePage, TypeFiles, TypeIndexer, Record
<1>00. /\ \A w, v \in Writers : pc[w] \in Critical /\ pc[v] \in Critical => w = v
       /\ \A w \in Writers : pc[w] \in Critical => xpc \notin {"extend", "publish"}
  BY <1>0 DEF ExtensionsExclusive, DataCritical, IndexCritical, IndexerCritical, Critical
<1> USE <1>0 DEF LengthsInFlight, WriterLengths, PublishedLengthsBacked, End,
               lengthVars, fileVars, mapVars, writerVars, indexerVars, boundVars,
               Goto, Fail, Acquire, Release
<1>1. ASSUME NEW w \in Writers, NEW size \in RecordSizes, AcquireSequence(w, size) PROVE LengthsInFlight'
  BY <1>1 DEF AcquireSequence
<1>2. ASSUME NEW w \in Writers, CreateDataMapping(w) PROVE LengthsInFlight'
  BY <1>2 DEF CreateDataMapping
<1>3. ASSUME NEW w \in Writers, ReadDataMappingLength(w) PROVE LengthsInFlight'
  BY <1>3 DEF ReadDataMappingLength
<1>4. ASSUME NEW w \in Writers, CreateIndexMapping(w) PROVE LengthsInFlight'
  BY <1>4 DEF CreateIndexMapping
<1>5. ASSUME NEW w \in Writers, ReadIndexMappingLength(w) PROVE LengthsInFlight'
  BY <1>5 DEF ReadIndexMappingLength
<1>6. ASSUME NEW w \in Writers, ReadFileLength(w) PROVE LengthsInFlight'
  BY <1>6 DEF ReadFileLength
<1>7. ASSUME NEW w \in Writers, ReadValidLength(w) PROVE LengthsInFlight'
  BY <1>7 DEF ReadValidLength
<1>8. ASSUME NEW w \in Writers, ClaimPosition(w) PROVE LengthsInFlight'
  BY <1>8 DEF ClaimPosition
<1>9. ASSUME NEW w \in Writers, LockDataLength(w) PROVE LengthsInFlight'
  BY <1>9 DEF LockDataLength
<1>10. ASSUME NEW w \in Writers, ExtendDataFile(w) PROVE LengthsInFlight'
  BY <1>10 DEF ExtendDataFile
<1>11. ASSUME NEW w \in Writers, PublishDataLength(w) PROVE LengthsInFlight'
  <2>1. PublishedLengthsBacked'
    BY <1>11 DEF PublishDataLength
  <2>2. ASSUME NEW v \in Writers PROVE WriterLengths(v)'
    BY <1>11, <1>00 DEF PublishDataLength, WriterLengths, Critical
  <2>3. (xpc = "publish" => IndexFileLength <= xlen /\ xlen <= indexEof)'
    BY <1>11, <1>00 DEF PublishDataLength, Critical
  <2> QED
    BY <2>1, <2>2, <2>3
<1>12. ASSUME NEW w \in Writers, UnlockDataLength(w) PROVE LengthsInFlight'
  BY <1>12 DEF UnlockDataLength
<1>13. ASSUME NEW w \in Writers, CopyRecord(w) PROVE LengthsInFlight'
  BY <1>13 DEF CopyRecord
<1>14. ASSUME NEW w \in Writers, MapDataView(w) PROVE LengthsInFlight'
  BY <1>14 DEF MapDataView
<1>15. ASSUME NEW w \in Writers, RecreateDataMapping(w) PROVE LengthsInFlight'
  BY <1>15 DEF RecreateDataMapping
<1>16. ASSUME NEW w \in Writers, ReadRecreatedLength(w) PROVE LengthsInFlight'
  BY <1>16 DEF ReadRecreatedLength
<1>17. ASSUME NEW w \in Writers, FillEntry(w) PROVE LengthsInFlight'
  BY <1>17 DEF FillEntry
<1>18. ASSUME NEW w \in Writers, CommitEntry(w) PROVE LengthsInFlight'
  BY <1>18 DEF CommitEntry
<1>19. ASSUME NEW w \in Writers, MapIndexView(w) PROVE LengthsInFlight'
  BY <1>19 DEF MapIndexView
<1>20. ASSUME NEW w \in Writers, CloseIndexMapping(w) PROVE LengthsInFlight'
  BY <1>20 DEF CloseIndexMapping
<1>21. ASSUME NEW w \in Writers, LockIndexLength(w) PROVE LengthsInFlight'
  BY <1>21 DEF LockIndexLength
<1>22. ASSUME NEW w \in Writers, ExtendIndexFile(w) PROVE LengthsInFlight'
  <2>1. PublishedLengthsBacked'
    BY <1>22 DEF ExtendIndexFile, IndexAlreadyExtended, IndexSequenceFull, IndexExtended
  <2>2. ASSUME NEW v \in Writers PROVE WriterLengths(v)'
    BY <1>22, <1>00 DEF ExtendIndexFile, IndexAlreadyExtended, IndexSequenceFull, IndexExtended, WriterLengths, Critical
  <2>3. (xpc = "publish" => IndexFileLength <= xlen /\ xlen <= indexEof)'
    BY <1>22, <1>00 DEF ExtendIndexFile, IndexAlreadyExtended, IndexSequenceFull, IndexExtended, Critical
  <2> QED
    BY <2>1, <2>2, <2>3
<1>23. ASSUME NEW w \in Writers, PublishIndexLength(w) PROVE LengthsInFlight'
  <2>1. PublishedLengthsBacked'
    BY <1>23 DEF PublishIndexLength
  <2>2. ASSUME NEW v \in Writers PROVE WriterLengths(v)'
    BY <1>23, <1>00 DEF PublishIndexLength, WriterLengths, Critical
  <2>3. (xpc = "publish" => IndexFileLength <= xlen /\ xlen <= indexEof)'
    BY <1>23, <1>00 DEF PublishIndexLength, Critical
  <2> QED
    BY <2>1, <2>2, <2>3
<1>24. ASSUME NEW w \in Writers, UnlockIndexLength(w) PROVE LengthsInFlight'
  BY <1>24 DEF UnlockIndexLength
<1>25. ASSUME NEW w \in Writers, RecreateIndexMapping(w) PROVE LengthsInFlight'
  BY <1>25 DEF RecreateIndexMapping
<1>26. ASSUME NEW w \in Writers, Die(w) PROVE LengthsInFlight'
  BY <1>26 DEF Die
<1>27. ASSUME TimerTick PROVE LengthsInFlight'
  BY <1>27 DEF TimerTick
<1>28. ASSUME ScanEntry PROVE LengthsInFlight'
  BY <1>28 DEF ScanEntry
<1>29. ASSUME PublishCount PROVE LengthsInFlight'
  BY <1>29 DEF PublishCount
<1>30. ASSUME SlideView PROVE LengthsInFlight'
  BY <1>30 DEF SlideView
<1>31. ASSUME ReadIndexLength PROVE LengthsInFlight'
  BY <1>31 DEF ReadIndexLength
<1>32. ASSUME LockLength PROVE LengthsInFlight'
  BY <1>32 DEF LockLength
<1>33. ASSUME IndexerExtends PROVE LengthsInFlight'
  <2>1. PublishedLengthsBacked'
    BY <1>33 DEF IndexerExtends
  <2>2. ASSUME NEW v \in Writers PROVE WriterLengths(v)'
    BY <1>33, <1>00 DEF IndexerExtends, WriterLengths, Critical
  <2>3. (xpc = "publish" => IndexFileLength <= xlen /\ xlen <= indexEof)'
    BY <1>33, <1>00 DEF IndexerExtends, Critical
  <2> QED
    BY <2>1, <2>2, <2>3
<1>34. ASSUME IndexerPublishes PROVE LengthsInFlight'
  <2>1. PublishedLengthsBacked'
    BY <1>34 DEF IndexerPublishes
  <2>2. ASSUME NEW v \in Writers PROVE WriterLengths(v)'
    BY <1>34, <1>00 DEF IndexerPublishes, WriterLengths, Critical
  <2>3. (xpc = "publish" => IndexFileLength <= xlen /\ xlen <= indexEof)'
    BY <1>34, <1>00 DEF IndexerPublishes, Critical
  <2> QED
    BY <2>1, <2>2, <2>3
<1>35. ASSUME UnlockLength PROVE LengthsInFlight'
  BY <1>35 DEF UnlockLength
<1>36. ASSUME RemapIndex PROVE LengthsInFlight'
  BY <1>36 DEF RemapIndex
<1>37. ASSUME StopEvent PROVE LengthsInFlight'
  BY <1>37 DEF StopEvent
<1>38. ASSUME RequestStop PROVE LengthsInFlight'
  BY <1>38 DEF RequestStop
<1>39. CASE UNCHANGED vars
  BY <1>39 DEF vars
<1> QED
  BY <1>1, <1>2, <1>3, <1>4, <1>5, <1>6, <1>7, <1>8, <1>9, <1>10,
     <1>11, <1>12, <1>13, <1>14, <1>15, <1>16, <1>17, <1>18, <1>19, <1>20,
     <1>21, <1>22, <1>23, <1>24, <1>25, <1>26, <1>27, <1>28, <1>29, <1>30,
     <1>31, <1>32, <1>33, <1>34, <1>35, <1>36, <1>37, <1>38, <1>39
  DEF Next, WriterStep, IndexerStep

\* A step that claims no range keeps the records apart.
LEMMA NothingPlaced ==
  ASSUME RecordsDisjoint, Placed' \subseteq Placed, DataValidLength' = DataValidLength
  PROVE  RecordsDisjoint'
  BY DEF RecordsDisjoint, Disjoint

\* Only a successful compare-exchange of BtrAcquireWritePosition claims a
\* range, and it begins where everything placed so far ends.
LEMMA RecordsStep ==
  TypeOK /\ RecordsDisjoint /\ [Next]_vars => RecordsDisjoint'
<1> SUFFICES ASSUME TypeOK, RecordsDisjoint, [Next]_vars
             PROVE  RecordsDisjoint'
  OBVIOUS
<1>0. /\ pc \in [Writers -> Labels]
      /\ rec \in [Writers -> Record]
      /\ \A w \in Writers : rec[w].start \in Nat /\ rec[w].size \in Nat
      /\ \A r \in Placed : r.start \in Nat /\ r.size \in Nat
      /\ DataValidLength \in Nat
  BY DEF TypeOK, TypeWriters, TypePage, TypeFiles, Record, Placed, Claimed
<1> USE <1>0 DEF lengthVars, fileVars, mapVars, writerVars, indexerVars, boundVars,
               Goto, Fail, Acquire, Release
<1>1. ASSUME NEW w \in Writers, NEW size \in RecordSizes, AcquireSequence(w, size) PROVE RecordsDisjoint'
  <2>1. Placed' \subseteq Placed /\ DataValidLength' = DataValidLength
    BY <1>1 DEF AcquireSequence, Placed, Claimed
  <2> QED
    BY <2>1, NothingPlaced
<1>2. ASSUME NEW w \in Writers, CreateDataMapping(w) PROVE RecordsDisjoint'
  <2>1. Placed' \subseteq Placed /\ DataValidLength' = DataValidLength
    BY <1>2 DEF CreateDataMapping, Placed, Claimed
  <2> QED
    BY <2>1, NothingPlaced
<1>3. ASSUME NEW w \in Writers, ReadDataMappingLength(w) PROVE RecordsDisjoint'
  <2>1. Placed' \subseteq Placed /\ DataValidLength' = DataValidLength
    BY <1>3 DEF ReadDataMappingLength, Placed, Claimed
  <2> QED
    BY <2>1, NothingPlaced
<1>4. ASSUME NEW w \in Writers, CreateIndexMapping(w) PROVE RecordsDisjoint'
  <2>1. Placed' \subseteq Placed /\ DataValidLength' = DataValidLength
    BY <1>4 DEF CreateIndexMapping, Placed, Claimed
  <2> QED
    BY <2>1, NothingPlaced
<1>5. ASSUME NEW w \in Writers, ReadIndexMappingLength(w) PROVE RecordsDisjoint'
  <2>1. Placed' \subseteq Placed /\ DataValidLength' = DataValidLength
    BY <1>5 DEF ReadIndexMappingLength, Placed, Claimed
  <2> QED
    BY <2>1, NothingPlaced
<1>6. ASSUME NEW w \in Writers, ReadFileLength(w) PROVE RecordsDisjoint'
  <2>1. Placed' \subseteq Placed /\ DataValidLength' = DataValidLength
    BY <1>6 DEF ReadFileLength, Placed, Claimed
  <2> QED
    BY <2>1, NothingPlaced
<1>7. ASSUME NEW w \in Writers, ReadValidLength(w) PROVE RecordsDisjoint'
  <2>1. Placed' \subseteq Placed /\ DataValidLength' = DataValidLength
    BY <1>7 DEF ReadValidLength, Placed, Claimed
  <2> QED
    BY <2>1, NothingPlaced
<1>8. ASSUME NEW w \in Writers, ClaimPosition(w) PROVE RecordsDisjoint'
  <2>1. CASE DataValidLength = rec[w].start
    <3>1. DataValidLength' = rec[w].start + rec[w].size
      BY <1>8, <2>1 DEF ClaimPosition, End
    <3>2. Placed' \subseteq Placed \cup {rec[w]}
      BY <1>8, <2>1 DEF ClaimPosition, Placed, Claimed
    <3> QED
      BY <2>1, <3>1, <3>2 DEF RecordsDisjoint, Disjoint
  <2>2. CASE DataValidLength # rec[w].start
    <3>1. Placed' \subseteq Placed /\ DataValidLength' = DataValidLength
      BY <1>8, <2>2 DEF ClaimPosition, Placed, Claimed
    <3> QED
      BY <3>1, NothingPlaced
  <2> QED
    BY <2>1, <2>2
<1>9. ASSUME NEW w \in Writers, LockDataLength(w) PROVE RecordsDisjoint'
  <2>1. Placed' \subseteq Placed /\ DataValidLength' = DataValidLength
    BY <1>9 DEF LockDataLength, Placed, Claimed
  <2> QED
    BY <2>1, NothingPlaced
<1>10. ASSUME NEW w \in Writers, ExtendDataFile(w) PROVE RecordsDisjoint'
  <2>1. Placed' \subseteq Placed /\ DataValidLength' = DataValidLength
    BY <1>10 DEF ExtendDataFile, Placed, Claimed
  <2> QED
    BY <2>1, NothingPlaced
<1>11. ASSUME NEW w \in Writers, PublishDataLength(w) PROVE RecordsDisjoint'
  <2>1. Placed' \subseteq Placed /\ DataValidLength' = DataValidLength
    BY <1>11 DEF PublishDataLength, Placed, Claimed
  <2> QED
    BY <2>1, NothingPlaced
<1>12. ASSUME NEW w \in Writers, UnlockDataLength(w) PROVE RecordsDisjoint'
  <2>1. Placed' \subseteq Placed /\ DataValidLength' = DataValidLength
    BY <1>12 DEF UnlockDataLength, Placed, Claimed
  <2> QED
    BY <2>1, NothingPlaced
<1>13. ASSUME NEW w \in Writers, CopyRecord(w) PROVE RecordsDisjoint'
  <2>1. Placed' \subseteq Placed /\ DataValidLength' = DataValidLength
    BY <1>13 DEF CopyRecord, CopyTo, Placed, Claimed
  <2> QED
    BY <2>1, NothingPlaced
<1>14. ASSUME NEW w \in Writers, MapDataView(w) PROVE RecordsDisjoint'
  <2>1. Placed' \subseteq Placed /\ DataValidLength' = DataValidLength
    BY <1>14 DEF MapDataView, CopyTo, Placed, Claimed
  <2> QED
    BY <2>1, NothingPlaced
<1>15. ASSUME NEW w \in Writers, RecreateDataMapping(w) PROVE RecordsDisjoint'
  <2>1. Placed' \subseteq Placed /\ DataValidLength' = DataValidLength
    BY <1>15 DEF RecreateDataMapping, Placed, Claimed
  <2> QED
    BY <2>1, NothingPlaced
<1>16. ASSUME NEW w \in Writers, ReadRecreatedLength(w) PROVE RecordsDisjoint'
  <2>1. Placed' \subseteq Placed /\ DataValidLength' = DataValidLength
    BY <1>16 DEF ReadRecreatedLength, Placed, Claimed
  <2> QED
    BY <2>1, NothingPlaced
<1>17. ASSUME NEW w \in Writers, FillEntry(w) PROVE RecordsDisjoint'
  <2>1. Placed' \subseteq Placed /\ DataValidLength' = DataValidLength
    BY <1>17 DEF FillEntry, Placed, Claimed
  <2> QED
    BY <2>1, NothingPlaced
<1>18. ASSUME NEW w \in Writers, CommitEntry(w) PROVE RecordsDisjoint'
  <2>1. Placed' \subseteq Placed /\ DataValidLength' = DataValidLength
    BY <1>18 DEF CommitEntry, Placed, Claimed
  <2> QED
    BY <2>1, NothingPlaced
<1>19. ASSUME NEW w \in Writers, MapIndexView(w) PROVE RecordsDisjoint'
  <2>1. Placed' \subseteq Placed /\ DataValidLength' = DataValidLength
    BY <1>19 DEF MapIndexView, Placed, Claimed
  <2> QED
    BY <2>1, NothingPlaced
<1>20. ASSUME NEW w \in Writers, CloseIndexMapping(w) PROVE RecordsDisjoint'
  <2>1. Placed' \subseteq Placed /\ DataValidLength' = DataValidLength
    BY <1>20 DEF CloseIndexMapping, Placed, Claimed
  <2> QED
    BY <2>1, NothingPlaced
<1>21. ASSUME NEW w \in Writers, LockIndexLength(w) PROVE RecordsDisjoint'
  <2>1. Placed' \subseteq Placed /\ DataValidLength' = DataValidLength
    BY <1>21 DEF LockIndexLength, Placed, Claimed
  <2> QED
    BY <2>1, NothingPlaced
<1>22. ASSUME NEW w \in Writers, ExtendIndexFile(w) PROVE RecordsDisjoint'
  <2>1. Placed' \subseteq Placed /\ DataValidLength' = DataValidLength
    BY <1>22 DEF ExtendIndexFile, IndexAlreadyExtended, IndexSequenceFull, IndexExtended, Placed, Claimed
  <2> QED
    BY <2>1, NothingPlaced
<1>23. ASSUME NEW w \in Writers, PublishIndexLength(w) PROVE RecordsDisjoint'
  <2>1. Placed' \subseteq Placed /\ DataValidLength' = DataValidLength
    BY <1>23 DEF PublishIndexLength, Placed, Claimed
  <2> QED
    BY <2>1, NothingPlaced
<1>24. ASSUME NEW w \in Writers, UnlockIndexLength(w) PROVE RecordsDisjoint'
  <2>1. Placed' \subseteq Placed /\ DataValidLength' = DataValidLength
    BY <1>24 DEF UnlockIndexLength, Placed, Claimed
  <2> QED
    BY <2>1, NothingPlaced
<1>25. ASSUME NEW w \in Writers, RecreateIndexMapping(w) PROVE RecordsDisjoint'
  <2>1. Placed' \subseteq Placed /\ DataValidLength' = DataValidLength
    BY <1>25 DEF RecreateIndexMapping, Placed, Claimed
  <2> QED
    BY <2>1, NothingPlaced
<1>26. ASSUME NEW w \in Writers, Die(w) PROVE RecordsDisjoint'
  <2>1. Placed' \subseteq Placed /\ DataValidLength' = DataValidLength
    BY <1>26 DEF Die, Placed, Claimed
  <2> QED
    BY <2>1, NothingPlaced
<1>27. ASSUME TimerTick PROVE RecordsDisjoint'
  <2>1. Placed' \subseteq Placed /\ DataValidLength' = DataValidLength
    BY <1>27 DEF TimerTick, Placed, Claimed
  <2> QED
    BY <2>1, NothingPlaced
<1>28. ASSUME ScanEntry PROVE RecordsDisjoint'
  <2>1. Placed' \subseteq Placed /\ DataValidLength' = DataValidLength
    BY <1>28 DEF ScanEntry, Placed, Claimed
  <2> QED
    BY <2>1, NothingPlaced
<1>29. ASSUME PublishCount PROVE RecordsDisjoint'
  <2>1. Placed' \subseteq Placed /\ DataValidLength' = DataValidLength
    BY <1>29 DEF PublishCount, Placed, Claimed
  <2> QED
    BY <2>1, NothingPlaced
<1>30. ASSUME SlideView PROVE RecordsDisjoint'
  <2>1. Placed' \subseteq Placed /\ DataValidLength' = DataValidLength
    BY <1>30 DEF SlideView, Placed, Claimed
  <2> QED
    BY <2>1, NothingPlaced
<1>31. ASSUME ReadIndexLength PROVE RecordsDisjoint'
  <2>1. Placed' \subseteq Placed /\ DataValidLength' = DataValidLength
    BY <1>31 DEF ReadIndexLength, Placed, Claimed
  <2> QED
    BY <2>1, NothingPlaced
<1>32. ASSUME LockLength PROVE RecordsDisjoint'
  <2>1. Placed' \subseteq Placed /\ DataValidLength' = DataValidLength
    BY <1>32 DEF LockLength, Placed, Claimed
  <2> QED
    BY <2>1, NothingPlaced
<1>33. ASSUME IndexerExtends PROVE RecordsDisjoint'
  <2>1. Placed' \subseteq Placed /\ DataValidLength' = DataValidLength
    BY <1>33 DEF IndexerExtends, Placed, Claimed
  <2> QED
    BY <2>1, NothingPlaced
<1>34. ASSUME IndexerPublishes PROVE RecordsDisjoint'
  <2>1. Placed' \subseteq Placed /\ DataValidLength' = DataValidLength
    BY <1>34 DEF IndexerPublishes, Placed, Claimed
  <2> QED
    BY <2>1, NothingPlaced
<1>35. ASSUME UnlockLength PROVE RecordsDisjoint'
  <2>1. Placed' \subseteq Placed /\ DataValidLength' = DataValidLength
    BY <1>35 DEF UnlockLength, Placed, Claimed
  <2> QED
    BY <2>1, NothingPlaced
<1>36. ASSUME RemapIndex PROVE RecordsDisjoint'
  <2>1. Placed' \subseteq Placed /\ DataValidLength' = DataValidLength
    BY <1>36 DEF RemapIndex, Placed, Claimed
  <2> QED
    BY <2>1, NothingPlaced
<1>37. ASSUME StopEvent PROVE RecordsDisjoint'
  <2>1. Placed' \subseteq Placed /\ DataValidLength' = DataValidLength
    BY <1>37 DEF StopEvent, Placed, Claimed
  <2> QED
    BY <2>1, NothingPlaced
<1>38. ASSUME RequestStop PROVE RecordsDisjoint'
  <2>1. Placed' \subseteq Placed /\ DataValidLength' = DataValidLength
    BY <1>38 DEF RequestStop, Placed, Claimed
  <2> QED
    BY <2>1, NothingPlaced
<1>39. CASE UNCHANGED vars
  BY <1>39, NothingPlaced DEF vars, Placed, Claimed
<1> QED
  BY <1>1, <1>2, <1>3, <1>4, <1>5, <1>6, <1>7, <1>8, <1>9, <1>10,
     <1>11, <1>12, <1>13, <1>14, <1>15, <1>16, <1>17, <1>18, <1>19, <1>20,
     <1>21, <1>22, <1>23, <1>24, <1>25, <1>26, <1>27, <1>28, <1>29, <1>30,
     <1>31, <1>32, <1>33, <1>34, <1>35, <1>36, <1>37, <1>38, <1>39
  DEF Next, WriterStep, IndexerStep

\* Entries stay committed, and the index thread advances over committed ones.
LEMMA CountedStep ==
  TypeOK /\ CountedAreCommitted /\ [Next]_vars => CountedAreCommitted'
<1> SUFFICES ASSUME TypeOK, CountedAreCommitted, [Next]_vars
             PROVE  CountedAreCommitted'
  OBVIOUS
<1>0. /\ index \in [Slots -> Entry]
      /\ cursor \in Nat /\ NumberOfRecords \in Nat
  BY DEF TypeOK, TypeFiles, TypeIndexer
<1> USE <1>0 DEF CountedAreCommitted, Committed, lengthVars, fileVars, mapVars, writerVars, indexerVars, boundVars,
               Goto, Fail, Acquire, Release
<1>1. ASSUME NEW w \in Writers, NEW size \in RecordSizes, AcquireSequence(w, size) PROVE CountedAreCommitted'
  BY <1>1 DEF AcquireSequence
<1>2. ASSUME NEW w \in Writers, CreateDataMapping(w) PROVE CountedAreCommitted'
  BY <1>2 DEF CreateDataMapping
<1>3. ASSUME NEW w \in Writers, ReadDataMappingLength(w) PROVE CountedAreCommitted'
  BY <1>3 DEF ReadDataMappingLength
<1>4. ASSUME NEW w \in Writers, CreateIndexMapping(w) PROVE CountedAreCommitted'
  BY <1>4 DEF CreateIndexMapping
<1>5. ASSUME NEW w \in Writers, ReadIndexMappingLength(w) PROVE CountedAreCommitted'
  BY <1>5 DEF ReadIndexMappingLength
<1>6. ASSUME NEW w \in Writers, ReadFileLength(w) PROVE CountedAreCommitted'
  BY <1>6 DEF ReadFileLength
<1>7. ASSUME NEW w \in Writers, ReadValidLength(w) PROVE CountedAreCommitted'
  BY <1>7 DEF ReadValidLength
<1>8. ASSUME NEW w \in Writers, ClaimPosition(w) PROVE CountedAreCommitted'
  BY <1>8 DEF ClaimPosition
<1>9. ASSUME NEW w \in Writers, LockDataLength(w) PROVE CountedAreCommitted'
  BY <1>9 DEF LockDataLength
<1>10. ASSUME NEW w \in Writers, ExtendDataFile(w) PROVE CountedAreCommitted'
  BY <1>10 DEF ExtendDataFile
<1>11. ASSUME NEW w \in Writers, PublishDataLength(w) PROVE CountedAreCommitted'
  BY <1>11 DEF PublishDataLength
<1>12. ASSUME NEW w \in Writers, UnlockDataLength(w) PROVE CountedAreCommitted'
  BY <1>12 DEF UnlockDataLength
<1>13. ASSUME NEW w \in Writers, CopyRecord(w) PROVE CountedAreCommitted'
  BY <1>13 DEF CopyRecord
<1>14. ASSUME NEW w \in Writers, MapDataView(w) PROVE CountedAreCommitted'
  BY <1>14 DEF MapDataView
<1>15. ASSUME NEW w \in Writers, RecreateDataMapping(w) PROVE CountedAreCommitted'
  BY <1>15 DEF RecreateDataMapping
<1>16. ASSUME NEW w \in Writers, ReadRecreatedLength(w) PROVE CountedAreCommitted'
  BY <1>16 DEF ReadRecreatedLength
<1>17. ASSUME NEW w \in Writers, FillEntry(w) PROVE CountedAreCommitted'
  <2>1. \A s \in Slots : index[s].Committed => index'[s].Committed
    BY <1>17 DEF FillEntry, Entry
  <2> QED
    BY <1>17, <2>1 DEF FillEntry
<1>18. ASSUME NEW w \in Writers, CommitEntry(w) PROVE CountedAreCommitted'
  <2>1. \A s \in Slots : index[s].Committed => index'[s].Committed
    BY <1>18 DEF CommitEntry, Entry
  <2> QED
    BY <1>18, <2>1 DEF CommitEntry
<1>19. ASSUME NEW w \in Writers, MapIndexView(w) PROVE CountedAreCommitted'
  BY <1>19 DEF MapIndexView
<1>20. ASSUME NEW w \in Writers, CloseIndexMapping(w) PROVE CountedAreCommitted'
  BY <1>20 DEF CloseIndexMapping
<1>21. ASSUME NEW w \in Writers, LockIndexLength(w) PROVE CountedAreCommitted'
  BY <1>21 DEF LockIndexLength
<1>22. ASSUME NEW w \in Writers, ExtendIndexFile(w) PROVE CountedAreCommitted'
  BY <1>22 DEF ExtendIndexFile, IndexAlreadyExtended, IndexSequenceFull, IndexExtended
<1>23. ASSUME NEW w \in Writers, PublishIndexLength(w) PROVE CountedAreCommitted'
  BY <1>23 DEF PublishIndexLength
<1>24. ASSUME NEW w \in Writers, UnlockIndexLength(w) PROVE CountedAreCommitted'
  BY <1>24 DEF UnlockIndexLength
<1>25. ASSUME NEW w \in Writers, RecreateIndexMapping(w) PROVE CountedAreCommitted'
  BY <1>25 DEF RecreateIndexMapping
<1>26. ASSUME NEW w \in Writers, Die(w) PROVE CountedAreCommitted'
  BY <1>26 DEF Die
<1>27. ASSUME TimerTick PROVE CountedAreCommitted'
  BY <1>27 DEF TimerTick
<1>28. ASSUME ScanEntry PROVE CountedAreCommitted'
  BY <1>28 DEF ScanEntry
<1>29. ASSUME PublishCount PROVE CountedAreCommitted'
  BY <1>29 DEF PublishCount
<1>30. ASSUME SlideView PROVE CountedAreCommitted'
  BY <1>30 DEF SlideView
<1>31. ASSUME ReadIndexLength PROVE CountedAreCommitted'
  BY <1>31 DEF ReadIndexLength
<1>32. ASSUME LockLength PROVE CountedAreCommitted'
  BY <1>32 DEF LockLength
<1>33. ASSUME IndexerExtends PROVE CountedAreCommitted'
  BY <1>33 DEF IndexerExtends
<1>34. ASSUME IndexerPublishes PROVE CountedAreCommitted'
  BY <1>34 DEF IndexerPublishes
<1>35. ASSUME UnlockLength PROVE CountedAreCommitted'
  BY <1>35 DEF UnlockLength
<1>36. ASSUME RemapIndex PROVE CountedAreCommitted'
  BY <1>36 DEF RemapIndex
<1>37. ASSUME StopEvent PROVE CountedAreCommitted'
  BY <1>37 DEF StopEvent
<1>38. ASSUME RequestStop PROVE CountedAreCommitted'
  BY <1>38 DEF RequestStop
<1>39. CASE UNCHANGED vars
  BY <1>39 DEF vars
<1> QED
  BY <1>1, <1>2, <1>3, <1>4, <1>5, <1>6, <1>7, <1>8, <1>9, <1>10,
     <1>11, <1>12, <1>13, <1>14, <1>15, <1>16, <1>17, <1>18, <1>19, <1>20,
     <1>21, <1>22, <1>23, <1>24, <1>25, <1>26, <1>27, <1>28, <1>29, <1>30,
     <1>31, <1>32, <1>33, <1>34, <1>35, <1>36, <1>37, <1>38, <1>39
  DEF Next, WriterStep, IndexerStep

\* The inductive invariant.
SafetyInv == TypeOK /\ ExtensionsExclusive /\ LengthsInFlight /\ RecordsDisjoint
               /\ CountedAreCommitted

\* The page and the files as MspCreateSharedDataMap and MspCreateCache leave
\* them satisfy the invariant.
LEMMA SafetyInit == Init => SafetyInv
<1> SUFFICES ASSUME Init PROVE SafetyInv
  OBVIOUS
<1>1. TypeOK
  BY TypeInit
<1>2. ExtensionsExclusive
  BY DEF Init, ExtensionsExclusive, DataCritical, IndexCritical, IndexerCritical
<1>3. LengthsInFlight
  BY SizesAssumption DEF Init, LengthsInFlight, WriterLengths, PublishedLengthsBacked
<1>4. RecordsDisjoint
  BY DEF Init, RecordsDisjoint, Placed, Claimed
<1>5. CountedAreCommitted
  BY DEF Init, CountedAreCommitted
<1> QED
  BY <1>1, <1>2, <1>3, <1>4, <1>5 DEF SafetyInv

\* The inductive invariant holds in every reachable state.
THEOREM Safety == Spec => []SafetyInv
<1>1. SafetyInv /\ [Next]_vars => SafetyInv'
  BY TypeStep, LockStep, LengthStep, RecordsStep, CountedStep DEF SafetyInv
<1> QED
  BY SafetyInit, <1>1, PTL DEF Spec

\* Every variable keeps its range, whatever the numbers of writers, sizes and
\* faults.
THEOREM TypeCorrect == Spec => []TypeOK
  BY Safety, PTL DEF SafetyInv

\* At most one thread is between acquiring and releasing the spin lock.
THEOREM ExtensionsAreExclusive == Spec => []ExtensionsExclusive
  BY Safety, PTL DEF SafetyInv

\* Lengths held by a writer between read and use are good when used.
THEOREM LengthsInFlightAreBacked == Spec => []LengthsInFlight
  BY Safety, PTL DEF SafetyInv

\* The lengths in the global page never exceed the files (btr/cache.c: a file
\* is extended before its length is stored).
THEOREM LengthsAreBacked == Spec => []PublishedLengthsBacked
<1>1. SafetyInv => PublishedLengthsBacked
  BY DEF SafetyInv, LengthsInFlight
<1> QED
  BY <1>1, Safety, PTL

\* No two records overlap in the data file (btr/cache.c, the compare-exchange
\* of BtrAcquireWritePosition), for any number of writers, failing or dying.
THEOREM RecordsAreDisjoint == Spec => []RecordsDisjoint
  BY Safety, PTL DEF SafetyInv

\* The index thread never publishes a count that covers an uncommitted entry
\* (dprobe/mspdtl.c, MspIndexProcedure).
THEOREM CountedEntriesAreCommitted == Spec => []CountedAreCommitted
  BY Safety, PTL DEF SafetyInv
--------------------------------------------------------------------------------
(***************************************************************************)
(* The index file, for values of the constants for which sequence numbers   *)
(* do not wrap.                                                             *)
(***************************************************************************)
\* Neither the ULONG Sequence nor the product with the size of an entry wraps.
NoWrap == MaxRecords <= SequenceModulus /\ MaxRecords <= EntryModulus

\* The place of every record so far fits into the bits of Offset.
OffsetsFit == DataValidLength < OffsetModulus

\* from the sequence number taken to the entry committed, and the part of it
\* after the copy
Indexing == IndexCritical \cup {"index", "commit", "indexlock", "indexcreate"}
Queueing == DataCritical \cup Indexing
              \cup {"filelen", "validlen", "claim", "datalock", "write", "writelen"}

SequenceCounts == Sequence = IF issued = 0 THEN SequenceModulus - 1 ELSE issued - 1

Names(e, r) == e.Length = r.size /\ e.Offset = r.start % OffsetModulus

\* A sequence number is in one thread's hand, or its entry is committed, or
\* neither; and it was issued.
SequenceOwned ==
  /\ \A w \in Writers : pc[w] \in Queueing => rec[w].seq < issued
  /\ \A w, v \in Writers :
       pc[w] \in Queueing /\ pc[v] \in Queueing /\ rec[w].seq = rec[v].seq => w = v
  /\ \A s \in Slots : index[s].Committed =>
       s < issued /\ \A w \in Writers : pc[w] \in Queueing => rec[w].seq # s

\* The entry of a record names it from FillEntry on, and the record was copied
\* before.
EntriesNameRecords ==
  /\ \A w \in Writers : pc[w] \in Indexing => rec[w] \in data
  /\ \A w \in Writers : pc[w] = "commit" => Names(index[rec[w].seq], rec[w])
  /\ \A s \in Slots : index[s].Committed => \E r \in data : r.seq = s /\ Names(index[s], r)

CommitInv == SequenceCounts /\ SequenceOwned /\ EntriesNameRecords

\* A number below the modulus is its own remainder.
LEMMA SmallRemainder ==
  ASSUME NEW n \in Nat, NEW m \in Nat, n < m
  PROVE  n % m = n
  OBVIOUS

\* The next number of the counter, as long as it does not wrap.
LEMMA NextNumber ==
  ASSUME NEW m \in Nat \ {0}
  PROVE  (m - 1 + 1) % m = 0
  OBVIOUS

\* A record in hand has the entry of its sequence number.
LEMMA OwnLocation ==
  ASSUME NoWrap, TypeOK, SequenceOwned, NEW w \in Writers, pc[w] \in Queueing
  PROVE  Location(w) = rec[w].seq /\ rec[w].seq \in Slots
<1>1. rec[w].seq \in Nat /\ rec[w].seq < EntryModulus /\ EntryModulus \in Nat
  BY SizesAssumption DEF NoWrap, TypeOK, TypeWriters, TypeBounds, Record, SequenceOwned
<1>2. rec[w].seq % EntryModulus = rec[w].seq
  BY <1>1, SmallRemainder
<1> QED
  BY <1>1, <1>2 DEF Location, Slots

\* A step that takes no number and writes no entry: threads only leave the part
\* of the code they were in, or go on with the same record.
LEMMA EntriesKept ==
  ASSUME CommitInv, UNCHANGED <<Sequence, issued, index>>, data \subseteq data',
         \A v \in Writers : pc'[v] \in Queueing =>
                              pc[v] \in Queueing /\ rec'[v].seq = rec[v].seq,
         \A v \in Writers : pc'[v] \in Indexing => rec'[v] \in data',
         \A v \in Writers : pc'[v] = "commit" => pc[v] = "commit" /\ rec'[v] = rec[v]
  PROVE  CommitInv'
<1>1. SequenceCounts'
  BY DEF CommitInv, SequenceCounts
<1>2. SequenceOwned'
  BY DEF CommitInv, SequenceOwned, Slots
<1>3. EntriesNameRecords'
  <2>1. (\A w \in Writers : pc[w] = "commit" => Names(index[rec[w].seq], rec[w]))'
    BY DEF CommitInv, EntriesNameRecords, Names
  <2>2. (\A s \in Slots : index[s].Committed =>
           \E r \in data : r.seq = s /\ Names(index[s], r))'
    BY DEF CommitInv, EntriesNameRecords, Names, Slots
  <2> QED
    BY <2>1, <2>2 DEF EntriesNameRecords
<1> QED
  BY <1>1, <1>2, <1>3 DEF CommitInv

\* Only three steps touch numbers or entries: a number is taken, an entry is
\* filled, an entry is committed.
LEMMA CommitStep ==
  ASSUME NoWrap, TypeOK, CommitInv, [Next]_vars
  PROVE  CommitInv'
<1> DEFINE Kept ==
      /\ UNCHANGED <<Sequence, issued, index>> /\ data \subseteq data'
      /\ \A v \in Writers : pc'[v] \in Queueing =>
                              pc[v] \in Queueing /\ rec'[v].seq = rec[v].seq
      /\ \A v \in Writers : pc'[v] \in Indexing => rec'[v] \in data'
      /\ \A v \in Writers : pc'[v] = "commit" => pc[v] = "commit" /\ rec'[v] = rec[v]
<1>0. /\ pc \in [Writers -> Labels]
      /\ rec \in [Writers -> Record]
      /\ \A v \in Writers : pc[v] \in Indexing => rec[v] \in data
  BY DEF TypeOK, TypeWriters, CommitInv, EntriesNameRecords
<1>00. /\ index \in [Slots -> Entry] /\ issued \in 0 .. MaxRecords
       /\ SequenceModulus \in Nat \ {0} /\ EntryModulus \in Nat \ {0} /\ MaxRecords \in Nat
  BY SizesAssumption DEF TypeOK, TypeFiles, TypeBounds
<1> USE <1>0 DEF Queueing, Indexing, DataCritical, IndexCritical, Record,
               lengthVars, fileVars, mapVars, writerVars, indexerVars, boundVars,
               Goto, Fail, Acquire, Release
<1>1. ASSUME NEW w \in Writers, NEW size \in RecordSizes, AcquireSequence(w, size) PROVE CommitInv'
  <2> DEFINE n == Sequence'
  <2>1. n = issued /\ issued < MaxRecords /\ issued' = issued + 1
    <3>1. CASE issued = 0
      BY <1>1, <3>1, <1>00, NextNumber DEF AcquireSequence, CommitInv, SequenceCounts
    <3>2. CASE issued # 0
      <4>1. issued \in Nat /\ issued < SequenceModulus /\ Sequence + 1 = issued
        BY <1>1, <3>2, <1>00 DEF AcquireSequence, CommitInv, SequenceCounts, NoWrap
      <4>2. issued % SequenceModulus = issued
        BY <4>1, <1>00, SmallRemainder
      <4> QED
        BY <1>1, <4>1, <4>2 DEF AcquireSequence
    <3> QED
      BY <3>1, <3>2
  <2>2. /\ pc' = [pc EXCEPT ![w] = "filelen"] /\ UNCHANGED <<index, data>>
        /\ rec' = [rec EXCEPT ![w] = [seq |-> issued, size |-> size, start |-> 0]]
    BY <1>1, <2>1 DEF AcquireSequence
  <2>3. SequenceCounts'
    BY <2>1, <1>00 DEF SequenceCounts
  <2>4. SequenceOwned'
    <3>1. \A v \in Writers : v # w => pc'[v] = pc[v] /\ rec'[v] = rec[v]
      BY <2>2
    <3>2. rec'[w].seq = issued
      BY <2>2
    <3>3. \A v \in Writers : v # w /\ pc[v] \in Queueing => rec[v].seq \in Nat /\ rec[v].seq < issued
      BY DEF CommitInv, SequenceOwned
    <3>4. \A t \in Slots : index[t].Committed =>
            t < issued /\ \A v \in Writers : pc[v] \in Queueing => rec[v].seq # t
      BY DEF CommitInv, SequenceOwned
    <3>5. \A v \in Writers : pc'[v] \in Queueing => rec'[v].seq < issued'
      BY <3>1, <3>2, <3>3, <2>1, <1>00
    <3>6. \A u, v \in Writers :
            pc'[u] \in Queueing /\ pc'[v] \in Queueing /\ rec'[u].seq = rec'[v].seq => u = v
      BY <3>1, <3>2, <3>3, <1>00 DEF CommitInv, SequenceOwned
    <3>7. ASSUME NEW t \in Slots, index'[t].Committed
          PROVE  t < issued' /\ \A v \in Writers : pc'[v] \in Queueing => rec'[v].seq # t
      <4>1. t < issued /\ \A v \in Writers : pc[v] \in Queueing => rec[v].seq # t
        BY <3>4, <3>7, <2>2
      <4>2. t \in Nat
        BY <1>00 DEF Slots
      <4>3. t < issued'
        BY <4>1, <4>2, <2>1, <1>00
      <4>4. \A v \in Writers : pc'[v] \in Queueing => rec'[v].seq # t
        BY <4>1, <4>2, <3>1, <3>2, <1>00
      <4> QED
        BY <4>3, <4>4
    <3> QED
      BY <3>5, <3>6, <3>7 DEF SequenceOwned, Slots
  <2>5. EntriesNameRecords'
    BY <2>2 DEF CommitInv, EntriesNameRecords, Names, Slots
  <2> QED
    BY <2>3, <2>4, <2>5 DEF CommitInv
<1>2. ASSUME NEW w \in Writers, CreateDataMapping(w) PROVE CommitInv'
  <2>1. Kept
    BY <1>2 DEF CreateDataMapping
  <2> QED
    BY <2>1, EntriesKept DEF Kept
<1>3. ASSUME NEW w \in Writers, ReadDataMappingLength(w) PROVE CommitInv'
  <2>1. Kept
    BY <1>3 DEF ReadDataMappingLength
  <2> QED
    BY <2>1, EntriesKept DEF Kept
<1>4. ASSUME NEW w \in Writers, CreateIndexMapping(w) PROVE CommitInv'
  <2>1. Kept
    BY <1>4 DEF CreateIndexMapping
  <2> QED
    BY <2>1, EntriesKept DEF Kept
<1>5. ASSUME NEW w \in Writers, ReadIndexMappingLength(w) PROVE CommitInv'
  <2>1. Kept
    BY <1>5 DEF ReadIndexMappingLength
  <2> QED
    BY <2>1, EntriesKept DEF Kept
<1>6. ASSUME NEW w \in Writers, ReadFileLength(w) PROVE CommitInv'
  <2>1. Kept
    BY <1>6 DEF ReadFileLength
  <2> QED
    BY <2>1, EntriesKept DEF Kept
<1>7. ASSUME NEW w \in Writers, ReadValidLength(w) PROVE CommitInv'
  <2>1. Kept
    BY <1>7 DEF ReadValidLength
  <2> QED
    BY <2>1, EntriesKept DEF Kept
<1>8. ASSUME NEW w \in Writers, ClaimPosition(w) PROVE CommitInv'
  <2>1. Kept
    BY <1>8 DEF ClaimPosition
  <2> QED
    BY <2>1, EntriesKept DEF Kept
<1>9. ASSUME NEW w \in Writers, LockDataLength(w) PROVE CommitInv'
  <2>1. Kept
    BY <1>9 DEF LockDataLength
  <2> QED
    BY <2>1, EntriesKept DEF Kept
<1>10. ASSUME NEW w \in Writers, ExtendDataFile(w) PROVE CommitInv'
  <2>1. Kept
    BY <1>10 DEF ExtendDataFile
  <2> QED
    BY <2>1, EntriesKept DEF Kept
<1>11. ASSUME NEW w \in Writers, PublishDataLength(w) PROVE CommitInv'
  <2>1. Kept
    BY <1>11 DEF PublishDataLength
  <2> QED
    BY <2>1, EntriesKept DEF Kept
<1>12. ASSUME NEW w \in Writers, UnlockDataLength(w) PROVE CommitInv'
  <2>1. Kept
    BY <1>12 DEF UnlockDataLength
  <2> QED
    BY <2>1, EntriesKept DEF Kept
<1>13. ASSUME NEW w \in Writers, CopyRecord(w) PROVE CommitInv'
  <2>1. Kept
    BY <1>13 DEF CopyRecord, CopyTo
  <2> QED
    BY <2>1, EntriesKept DEF Kept
<1>14. ASSUME NEW w \in Writers, MapDataView(w) PROVE CommitInv'
  <2>1. Kept
    BY <1>14 DEF MapDataView, CopyTo
  <2> QED
    BY <2>1, EntriesKept DEF Kept
<1>15. ASSUME NEW w \in Writers, RecreateDataMapping(w) PROVE CommitInv'
  <2>1. Kept
    BY <1>15 DEF RecreateDataMapping
  <2> QED
    BY <2>1, EntriesKept DEF Kept
<1>16. ASSUME NEW w \in Writers, ReadRecreatedLength(w) PROVE CommitInv'
  <2>1. Kept
    BY <1>16 DEF ReadRecreatedLength
  <2> QED
    BY <2>1, EntriesKept DEF Kept
<1>17. ASSUME NEW w \in Writers, FillEntry(w) PROVE CommitInv'
  <2> DEFINE s == rec[w].seq
  <2>1. Location(w) = s /\ s \in Slots
    BY <1>17, OwnLocation DEF FillEntry, CommitInv
  <2>2. /\ pc[w] = "index" /\ pc' = [pc EXCEPT ![w] = "commit"]
        /\ UNCHANGED <<Sequence, issued, data, rec>>
        /\ index' = [index EXCEPT ![s] = [@ EXCEPT !.Length = rec[w].size,
                                                  !.Offset = rec[w].start % OffsetModulus]]
    BY <1>17, <2>1 DEF FillEntry
  <2>3. \A t \in Slots : index'[t].Committed = index[t].Committed
    BY <2>1, <2>2, <1>00 DEF Entry
  <2>4. \A t \in Slots : t # s => index'[t] = index[t]
    BY <2>1, <2>2, <1>00
  <2>5. Names(index'[s], rec[w])
    BY <2>1, <2>2, <1>00 DEF Names, Entry
  <2>6. SequenceCounts' /\ SequenceOwned'
    BY <2>2, <2>3 DEF CommitInv, SequenceCounts, SequenceOwned, Slots
  <2>7. ASSUME NEW v \in Writers, pc'[v] = "commit"
        PROVE  Names(index'[rec'[v].seq], rec'[v])
    <3>1. CASE v = w
      BY <3>1, <2>2, <2>5
    <3>2. CASE v # w
      <4>1. pc[v] = "commit" /\ rec[v].seq # s
        BY <3>2, <2>2, <2>7 DEF CommitInv, SequenceOwned
      <4>2. rec[v].seq \in Slots
        BY <4>1, OwnLocation DEF CommitInv
      <4> QED
        BY <4>1, <4>2, <2>2, <2>4 DEF CommitInv, EntriesNameRecords
    <3> QED
      BY <3>1, <3>2
  <2>8. ASSUME NEW t \in Slots, index'[t].Committed
        PROVE  \E r \in data' : r.seq = t /\ Names(index'[t], r)
    <3>1. index[t].Committed /\ t # s
      BY <2>2, <2>3, <2>8 DEF CommitInv, SequenceOwned
    <3> QED
      BY <3>1, <2>2, <2>4 DEF CommitInv, EntriesNameRecords
  <2>9. EntriesNameRecords'
    BY <2>2, <2>7, <2>8 DEF EntriesNameRecords, CommitInv, Slots
  <2> QED
    BY <2>6, <2>9 DEF CommitInv
<1>18. ASSUME NEW w \in Writers, CommitEntry(w) PROVE CommitInv'
  <2> DEFINE s == rec[w].seq
  <2>1. Location(w) = s /\ s \in Slots /\ s < issued
    BY <1>18, OwnLocation DEF CommitEntry, CommitInv, SequenceOwned
  <2>2. /\ pc[w] = "commit" /\ pc' = [pc EXCEPT ![w] = "idle"]
        /\ UNCHANGED <<Sequence, issued, data>>
        /\ rec' = [rec EXCEPT ![w] = NoRecord]
        /\ index' = [index EXCEPT ![s].Committed = TRUE]
    BY <1>18, <2>1 DEF CommitEntry
  <2>3. \A t \in Slots : t # s => index'[t] = index[t]
    BY <2>1, <2>2, <1>00
  <2>4. Names(index'[s], rec[w])
    <3>1. Names(index[s], rec[w])
      BY <2>2 DEF CommitInv, EntriesNameRecords
    <3>2. index'[s].Length = index[s].Length /\ index'[s].Offset = index[s].Offset
      BY <2>1, <2>2, <1>00 DEF Entry
    <3> QED
      BY <3>1, <3>2 DEF Names
  <2>5. SequenceCounts'
    BY <2>2 DEF CommitInv, SequenceCounts
  <2>6. \A v \in Writers : pc'[v] \in Queueing =>
          v # w /\ pc[v] \in Queueing /\ rec'[v] = rec[v] /\ rec[v].seq # s
    BY <2>2 DEF CommitInv, SequenceOwned
  <2>7. SequenceOwned'
    <3>1. ASSUME NEW t \in Slots, index'[t].Committed
          PROVE  t < issued /\ \A v \in Writers : pc'[v] \in Queueing => rec'[v].seq # t
      <4>1. CASE t = s
        BY <4>1, <2>1, <2>6
      <4>2. CASE t # s
        BY <4>2, <3>1, <2>3, <2>6 DEF CommitInv, SequenceOwned
      <4> QED
        BY <4>1, <4>2
    <3>2. /\ \A v \in Writers : pc'[v] \in Queueing => rec'[v].seq < issued
          /\ \A u, v \in Writers :
               pc'[u] \in Queueing /\ pc'[v] \in Queueing /\ rec'[u].seq = rec'[v].seq => u = v
      BY <2>6 DEF CommitInv, SequenceOwned
    <3> QED
      BY <3>1, <3>2, <2>2 DEF SequenceOwned, Slots
  <2>8. EntriesNameRecords'
    <3>1. ASSUME NEW t \in Slots, index'[t].Committed
          PROVE  \E r \in data' : r.seq = t /\ Names(index'[t], r)
      <4>1. CASE t = s
        BY <4>1, <2>2, <2>4 DEF CommitInv, EntriesNameRecords
      <4>2. CASE t # s
        BY <4>2, <3>1, <2>2, <2>3 DEF CommitInv, EntriesNameRecords
      <4> QED
        BY <4>1, <4>2
    <3>2. \A v \in Writers : pc'[v] \in Indexing => rec'[v] \in data'
      BY <2>2, <2>6
    <3>3. ASSUME NEW v \in Writers, pc'[v] = "commit"
          PROVE  Names(index'[rec'[v].seq], rec'[v])
      <4>1. v # w /\ pc[v] = "commit" /\ rec'[v] = rec[v] /\ rec[v].seq # s
        BY <3>3, <2>2, <2>6
      <4>2. rec[v].seq \in Slots
        BY <4>1, OwnLocation DEF CommitInv
      <4> QED
        BY <4>1, <4>2, <2>3 DEF CommitInv, EntriesNameRecords
    <3> QED
      BY <3>1, <3>2, <3>3 DEF EntriesNameRecords, Slots
  <2> QED
    BY <2>5, <2>7, <2>8 DEF CommitInv
<1>19. ASSUME NEW w \in Writers, MapIndexView(w) PROVE CommitInv'
  <2>1. Kept
    BY <1>19 DEF MapIndexView
  <2> QED
    BY <2>1, EntriesKept DEF Kept
<1>20. ASSUME NEW w \in Writers, CloseIndexMapping(w) PROVE CommitInv'
  <2>1. Kept
    BY <1>20 DEF CloseIndexMapping
  <2> QED
    BY <2>1, EntriesKept DEF Kept
<1>21. ASSUME NEW w \in Writers, LockIndexLength(w) PROVE CommitInv'
  <2>1. Kept
    BY <1>21 DEF LockIndexLength
  <2> QED
    BY <2>1, EntriesKept DEF Kept
<1>22. ASSUME NEW w \in Writers, ExtendIndexFile(w) PROVE CommitInv'
  <2>1. Kept
    BY <1>22 DEF ExtendIndexFile, IndexAlreadyExtended, IndexSequenceFull, IndexExtended
  <2> QED
    BY <2>1, EntriesKept DEF Kept
<1>23. ASSUME NEW w \in Writers, PublishIndexLength(w) PROVE CommitInv'
  <2>1. Kept
    BY <1>23 DEF PublishIndexLength
  <2> QED
    BY <2>1, EntriesKept DEF Kept
<1>24. ASSUME NEW w \in Writers, UnlockIndexLength(w) PROVE CommitInv'
  <2>1. Kept
    BY <1>24 DEF UnlockIndexLength
  <2> QED
    BY <2>1, EntriesKept DEF Kept
<1>25. ASSUME NEW w \in Writers, RecreateIndexMapping(w) PROVE CommitInv'
  <2>1. Kept
    BY <1>25 DEF RecreateIndexMapping
  <2> QED
    BY <2>1, EntriesKept DEF Kept
<1>26. ASSUME NEW w \in Writers, Die(w) PROVE CommitInv'
  <2>1. Kept
    BY <1>26 DEF Die
  <2> QED
    BY <2>1, EntriesKept DEF Kept
<1>27. ASSUME TimerTick PROVE CommitInv'
  <2>1. Kept
    BY <1>27 DEF TimerTick
  <2> QED
    BY <2>1, EntriesKept DEF Kept
<1>28. ASSUME ScanEntry PROVE CommitInv'
  <2>1. Kept
    BY <1>28 DEF ScanEntry
  <2> QED
    BY <2>1, EntriesKept DEF Kept
<1>29. ASSUME PublishCount PROVE CommitInv'
  <2>1. Kept
    BY <1>29 DEF PublishCount
  <2> QED
    BY <2>1, EntriesKept DEF Kept
<1>30. ASSUME SlideView PROVE CommitInv'
  <2>1. Kept
    BY <1>30 DEF SlideView
  <2> QED
    BY <2>1, EntriesKept DEF Kept
<1>31. ASSUME ReadIndexLength PROVE CommitInv'
  <2>1. Kept
    BY <1>31 DEF ReadIndexLength
  <2> QED
    BY <2>1, EntriesKept DEF Kept
<1>32. ASSUME LockLength PROVE CommitInv'
  <2>1. Kept
    BY <1>32 DEF LockLength
  <2> QED
    BY <2>1, EntriesKept DEF Kept
<1>33. ASSUME IndexerExtends PROVE CommitInv'
  <2>1. Kept
    BY <1>33 DEF IndexerExtends
  <2> QED
    BY <2>1, EntriesKept DEF Kept
<1>34. ASSUME IndexerPublishes PROVE CommitInv'
  <2>1. Kept
    BY <1>34 DEF IndexerPublishes
  <2> QED
    BY <2>1, EntriesKept DEF Kept
<1>35. ASSUME UnlockLength PROVE CommitInv'
  <2>1. Kept
    BY <1>35 DEF UnlockLength
  <2> QED
    BY <2>1, EntriesKept DEF Kept
<1>36. ASSUME RemapIndex PROVE CommitInv'
  <2>1. Kept
    BY <1>36 DEF RemapIndex
  <2> QED
    BY <2>1, EntriesKept DEF Kept
<1>37. ASSUME StopEvent PROVE CommitInv'
  <2>1. Kept
    BY <1>37 DEF StopEvent
  <2> QED
    BY <2>1, EntriesKept DEF Kept
<1>38. ASSUME RequestStop PROVE CommitInv'
  <2>1. Kept
    BY <1>38 DEF RequestStop
  <2> QED
    BY <2>1, EntriesKept DEF Kept
<1>39. CASE UNCHANGED vars
  BY <1>39, EntriesKept DEF vars, CommitInv, EntriesNameRecords
<1> QED
  BY <1>1, <1>2, <1>3, <1>4, <1>5, <1>6, <1>7, <1>8, <1>9, <1>10,
     <1>11, <1>12, <1>13, <1>14, <1>15, <1>16, <1>17, <1>18, <1>19, <1>20,
     <1>21, <1>22, <1>23, <1>24, <1>25, <1>26, <1>27, <1>28, <1>29, <1>30,
     <1>31, <1>32, <1>33, <1>34, <1>35, <1>36, <1>37, <1>38, <1>39
  DEF Next, WriterStep, IndexerStep

\* Nothing is in hand and nothing is committed at first.
LEMMA CommitInit == ASSUME Init PROVE CommitInv
<1>1. SequenceCounts
  BY DEF Init, SequenceCounts
<1>2. SequenceOwned /\ EntriesNameRecords
  BY DEF Init, SequenceOwned, EntriesNameRecords, Queueing, Indexing, DataCritical,
         IndexCritical, NoEntry
<1> QED
  BY <1>1, <1>2 DEF CommitInv

\* The ownership of sequence numbers is an invariant of the cache.
LEMMA CommitInvariant ==
  ASSUME NoWrap
  PROVE  Spec => [](SafetyInv /\ CommitInv)
<1>1. Init => CommitInv
  BY CommitInit
<1>2. SafetyInv /\ CommitInv /\ [Next]_vars => CommitInv'
  BY CommitStep DEF SafetyInv
<1> QED
  BY <1>1, <1>2, Safety, PTL DEF Spec

\* A committed entry names the record it was written for, if the record's place
\* fits into Offset.
LEMMA CommittedNames ==
  ASSUME NoWrap, SafetyInv, CommitInv, OffsetsFit
  PROVE  \A s \in Slots : index[s].Committed =>
           \E r \in data : /\ r.seq = s /\ r.seq % EntryModulus = s
                           /\ r.size = index[s].Length /\ r.start = index[s].Offset
<1> SUFFICES ASSUME NEW s \in Slots, index[s].Committed
             PROVE  \E r \in data : /\ r.seq = s /\ r.seq % EntryModulus = s
                                    /\ r.size = index[s].Length /\ r.start = index[s].Offset
  OBVIOUS
<1>1. PICK r \in data : r.seq = s /\ Names(index[s], r)
  BY DEF CommitInv, EntriesNameRecords
<1>2. s \in Nat /\ EntryModulus \in Nat /\ s < EntryModulus
  BY SizesAssumption DEF Slots
<1>3. s % EntryModulus = s
  BY <1>2, SmallRemainder
<1>4. r.start \in Nat /\ r.size \in Nat /\ DataValidLength \in Nat /\ OffsetModulus \in Nat
  BY SizesAssumption DEF SafetyInv, TypeOK, TypeFiles, TypePage, Record
<1>5. r.start < OffsetModulus
  BY <1>4 DEF OffsetsFit, SafetyInv, RecordsDisjoint, Placed
<1>6. r.start % OffsetModulus = r.start
  BY <1>4, <1>5, SmallRemainder
<1> QED
  BY <1>1, <1>3, <1>6 DEF Names

\* Whoever sees Committed finds the whole record, as long as neither sequence
\* numbers nor offsets outgrow their fields (btr/cache.c, BtrWriteSharedCacheIndex).
THEOREM CommittedEntriesAreWritten ==
  ASSUME NoWrap
  PROVE  Spec /\ []OffsetsFit => []CommittedIsWritten
<1>1. SafetyInv /\ CommitInv /\ OffsetsFit => CommittedIsWritten
  BY CommittedNames DEF CommittedIsWritten
<1> QED
  BY <1>1, CommitInvariant, PTL

\* What a step may do to the index: a thread with sequence number s fills its
\* entry, which nobody committed, or commits it, and no other entry changes.
OwnEntry(w) ==
  LET s == rec[w].seq IN
  /\ pc[w] \in Indexing /\ s \in Slots /\ ~index[s].Committed
  /\ \A t \in Slots : t # s => index'[t] = index[t]
  /\ \/ FillEntry(w) /\ index'[s].Committed = FALSE
     \/ CommitEntry(w) /\ index'[s].Committed /\ Names(index'[s], rec[w])

\* An entry is written only by the thread that has its sequence number.
LEMMA EntryWrites ==
  ASSUME NoWrap, TypeOK, CommitInv, [Next]_vars
  PROVE  index' = index \/ \E w \in Writers : OwnEntry(w)
<1>0. index \in [Slots -> Entry]
  BY DEF TypeOK, TypeFiles
<1>1. ASSUME NEW w \in Writers, FillEntry(w) PROVE OwnEntry(w)
  <2>1. pc[w] = "index" /\ Location(w) = rec[w].seq /\ rec[w].seq \in Slots
    BY <1>1, OwnLocation DEF FillEntry, CommitInv, Queueing, Indexing
  <2>2. ~index[rec[w].seq].Committed
    BY <2>1 DEF CommitInv, SequenceOwned, Queueing, Indexing
  <2>3. index' = [index EXCEPT ![rec[w].seq] =
                    [@ EXCEPT !.Length = rec[w].size, !.Offset = rec[w].start % OffsetModulus]]
    BY <1>1, <2>1 DEF FillEntry
  <2>4. index'[rec[w].seq].Committed = index[rec[w].seq].Committed
    BY <2>1, <2>3, <1>0 DEF Entry
  <2>5. index[rec[w].seq].Committed = FALSE
    BY <2>1, <2>2, <1>0 DEF Entry
  <2>6. \A s \in Slots : s # rec[w].seq => index'[s] = index[s]
    BY <2>1, <2>3, <1>0
  <2> QED
    BY <1>1, <2>1, <2>2, <2>4, <2>5, <2>6 DEF OwnEntry, Indexing
<1>2. ASSUME NEW w \in Writers, CommitEntry(w) PROVE OwnEntry(w)
  <2>1. pc[w] = "commit" /\ Location(w) = rec[w].seq /\ rec[w].seq \in Slots
    BY <1>2, OwnLocation DEF CommitEntry, CommitInv, Queueing, Indexing
  <2>2. ~index[rec[w].seq].Committed
    BY <2>1 DEF CommitInv, SequenceOwned, Queueing, Indexing
  <2>3. index' = [index EXCEPT ![rec[w].seq].Committed = TRUE]
    BY <1>2, <2>1 DEF CommitEntry
  <2>4. /\ index'[rec[w].seq].Committed
        /\ index'[rec[w].seq].Length = index[rec[w].seq].Length
        /\ index'[rec[w].seq].Offset = index[rec[w].seq].Offset
    BY <2>1, <2>3, <1>0 DEF Entry
  <2>5. Names(index'[rec[w].seq], rec[w])
    BY <2>1, <2>4 DEF CommitInv, EntriesNameRecords, Names
  <2>6. \A s \in Slots : s # rec[w].seq => index'[s] = index[s]
    BY <2>1, <2>3, <1>0
  <2> QED
    BY <1>2, <2>1, <2>2, <2>4, <2>5, <2>6 DEF OwnEntry, Indexing
<1>3. (\E w \in Writers : FillEntry(w) \/ CommitEntry(w)) \/ index' = index
  BY DEF Next, vars, WriterStep, IndexerStep, AcquireSequence, CreateDataMapping,
         ReadDataMappingLength, CreateIndexMapping, ReadIndexMappingLength,
         ReadFileLength, ReadValidLength, ClaimPosition, LockDataLength, ExtendDataFile,
         PublishDataLength, UnlockDataLength, CopyRecord, MapDataView,
         RecreateDataMapping, ReadRecreatedLength, MapIndexView, CloseIndexMapping,
         LockIndexLength, ExtendIndexFile, PublishIndexLength, UnlockIndexLength,
         RecreateIndexMapping, Die, TimerTick, ScanEntry, PublishCount, SlideView,
         ReadIndexLength, LockLength, IndexerExtends, IndexerPublishes, UnlockLength,
         RemapIndex, StopEvent, RequestStop, fileVars
<1> QED
  BY <1>1, <1>2, <1>3

\* What was shown to a reader stays as it is, whatever a slower thread still
\* writes: nobody writes an entry that is committed.
THEOREM CommittedEntriesStay ==
  ASSUME NoWrap
  PROVE  Spec => CommittedImmutable
<1>1. SafetyInv /\ CommitInv /\ [Next]_vars
        => [\A s \in Slots : index[s].Committed => index'[s] = index[s]]_vars
  BY EntryWrites DEF SafetyInv, OwnEntry
<1> QED
  BY <1>1, CommitInvariant, PTL DEF Spec, CommittedImmutable
-----------------------------------------------------------------------------

\* Whole views of the index file.
Aligned(n) == \E k \in Nat : n = k * IndexMapUnit

\* The increment of the index file is a number of views.
LEMMA IncrementAligned == Aligned(IndexIncrement)
<1>1. IndexIncrement \in Nat /\ IndexMapUnit \in Nat \ {0} /\ IndexIncrement % IndexMapUnit = 0
  BY SizesAssumption
<1>2. /\ IndexIncrement \div IndexMapUnit \in Nat
      /\ IndexIncrement = (IndexIncrement \div IndexMapUnit) * IndexMapUnit
  BY <1>1
<1> QED
  BY <1>2 DEF Aligned

\* Views added to views.
LEMMA AlignedSum ==
  ASSUME NEW n, NEW m, Aligned(n), Aligned(m)
  PROVE  Aligned(n + m)
<1>1. PICK k \in Nat : n = k * IndexMapUnit
  BY DEF Aligned
<1>2. PICK j \in Nat : m = j * IndexMapUnit
  BY DEF Aligned
<1>3. IndexMapUnit \in Nat
  BY SizesAssumption
<1>4. n + m = (k + j) * IndexMapUnit /\ k + j \in Nat
  BY <1>1, <1>2, <1>3
<1> QED
  BY <1>4 DEF Aligned

\* A file that is longer than some views has one more.
LEMMA AlignedRoom ==
  ASSUME NEW n, NEW m, Aligned(n), Aligned(m), n < m
  PROVE  n + IndexMapUnit <= m
<1>1. PICK k \in Nat : n = k * IndexMapUnit
  BY DEF Aligned
<1>2. PICK j \in Nat : m = j * IndexMapUnit
  BY DEF Aligned
<1>3. IndexMapUnit \in Nat \ {0}
  BY SizesAssumption
<1>4. k < j
  <2>1. j <= k => j * IndexMapUnit <= k * IndexMapUnit
    BY <1>3
  <2>2. k * IndexMapUnit \in Nat /\ j * IndexMapUnit \in Nat
    BY <1>3
  <2> QED
    BY <1>1, <1>2, <2>1, <2>2
<1>5. k + 1 <= j => (k + 1) * IndexMapUnit <= j * IndexMapUnit
  BY <1>3
<1>6. (k + 1) * IndexMapUnit = n + IndexMapUnit
  BY <1>1, <1>3
<1> QED
  BY <1>1, <1>2, <1>4, <1>5, <1>6

LEMMA UnitAligned == Aligned(0) /\ Aligned(IndexMapUnit)
<1>1. 0 = 0 * IndexMapUnit /\ IndexMapUnit = 1 * IndexMapUnit
  BY SizesAssumption
<1> QED
  BY <1>1 DEF Aligned

\* The lengths of the index file, published or about to be, are whole views.
LengthsAligned ==
  /\ Aligned(IndexFileLength) /\ Aligned(xlen)
  /\ \A w \in Writers : pc[w] = "indexpublish" => Aligned(len[w])

\* The index thread's view and what it knows of the length lie in the file, and
\* its cursor stays in the view or stands at its end.
ViewInFile ==
  /\ Aligned(xmap.first) /\ Aligned(xmap.length)
  /\ xmap.length <= IndexFileLength
  /\ xmap.first + IndexMapUnit <= IndexFileLength
  /\ xpc \in {"lock", "extend", "unlock", "remap"} => xlen <= IndexFileLength
  /\ cursor <= xmap.first + IndexMapUnit
  /\ NumberOfRecords <= cursor

CountInv == LengthsAligned /\ ViewInFile

\* The first view and the first length.
LEMMA CountInit == ASSUME Init PROVE CountInv
<1>1. IndexMapUnit \in Nat /\ IndexIncrement \in Nat \ {0}
  BY SizesAssumption
<1>2. IndexMapUnit <= IndexIncrement
  <2>1. 0 < IndexIncrement
    BY <1>1
  <2>2. 0 + IndexMapUnit <= IndexIncrement
    BY <2>1, UnitAligned, IncrementAligned, AlignedRoom
  <2> QED
    BY <1>1, <2>2
<1>3. LengthsAligned
  BY UnitAligned, IncrementAligned DEF Init, LengthsAligned
<1>4. ViewInFile
  BY <1>1, <1>2, UnitAligned, IncrementAligned DEF Init, ViewInFile
<1> QED
  BY <1>3, <1>4 DEF CountInv

\* Lengths grow by whole increments, and the view moves by whole views.
LEMMA CountStep ==
  ASSUME SafetyInv, CountInv, [Next]_vars
  PROVE  CountInv'
<1>0. /\ pc \in [Writers -> Labels] /\ len \in [Writers -> Nat]
      /\ IndexFileLength \in Nat /\ xlen \in Nat /\ cursor \in Nat /\ NumberOfRecords \in Nat
      /\ xmap \in [first : Nat, length : Nat, section : Nat]
      /\ IndexMapUnit \in Nat \ {0} /\ IndexIncrement \in Nat
  BY SizesAssumption DEF SafetyInv, TypeOK, TypeWriters, TypePage, TypeIndexer
<1>00. /\ \A w \in Writers : pc[w] = "indexpublish" => IndexFileLength <= len[w]
       /\ xpc = "publish" => IndexFileLength <= xlen
  BY DEF SafetyInv, LengthsInFlight, WriterLengths
<1>000. Aligned(IndexFileLength + IndexIncrement)
  BY IncrementAligned, AlignedSum DEF CountInv, LengthsAligned
<1> USE <1>0 DEF CountInv, LengthsAligned, ViewInFile,
               lengthVars, fileVars, mapVars, writerVars, indexerVars, boundVars,
               Goto, Fail, Acquire, Release
<1>1. ASSUME NEW w \in Writers, NEW size \in RecordSizes, AcquireSequence(w, size) PROVE CountInv'
  BY <1>1 DEF AcquireSequence
<1>2. ASSUME NEW w \in Writers, CreateDataMapping(w) PROVE CountInv'
  BY <1>2 DEF CreateDataMapping
<1>3. ASSUME NEW w \in Writers, ReadDataMappingLength(w) PROVE CountInv'
  BY <1>3 DEF ReadDataMappingLength
<1>4. ASSUME NEW w \in Writers, CreateIndexMapping(w) PROVE CountInv'
  BY <1>4 DEF CreateIndexMapping
<1>5. ASSUME NEW w \in Writers, ReadIndexMappingLength(w) PROVE CountInv'
  BY <1>5 DEF ReadIndexMappingLength
<1>6. ASSUME NEW w \in Writers, ReadFileLength(w) PROVE CountInv'
  BY <1>6 DEF ReadFileLength
<1>7. ASSUME NEW w \in Writers, ReadValidLength(w) PROVE CountInv'
  BY <1>7 DEF ReadValidLength
<1>8. ASSUME NEW w \in Writers, ClaimPosition(w) PROVE CountInv'
  BY <1>8 DEF ClaimPosition
<1>9. ASSUME NEW w \in Writers, LockDataLength(w) PROVE CountInv'
  BY <1>9 DEF LockDataLength
<1>10. ASSUME NEW w \in Writers, ExtendDataFile(w) PROVE CountInv'
  BY <1>10 DEF ExtendDataFile
<1>11. ASSUME NEW w \in Writers, PublishDataLength(w) PROVE CountInv'
  BY <1>11 DEF PublishDataLength
<1>12. ASSUME NEW w \in Writers, UnlockDataLength(w) PROVE CountInv'
  BY <1>12 DEF UnlockDataLength
<1>13. ASSUME NEW w \in Writers, CopyRecord(w) PROVE CountInv'
  BY <1>13 DEF CopyRecord, CopyTo
<1>14. ASSUME NEW w \in Writers, MapDataView(w) PROVE CountInv'
  BY <1>14 DEF MapDataView, CopyTo
<1>15. ASSUME NEW w \in Writers, RecreateDataMapping(w) PROVE CountInv'
  BY <1>15 DEF RecreateDataMapping
<1>16. ASSUME NEW w \in Writers, ReadRecreatedLength(w) PROVE CountInv'
  BY <1>16 DEF ReadRecreatedLength
<1>17. ASSUME NEW w \in Writers, FillEntry(w) PROVE CountInv'
  BY <1>17 DEF FillEntry
<1>18. ASSUME NEW w \in Writers, CommitEntry(w) PROVE CountInv'
  BY <1>18 DEF CommitEntry
<1>19. ASSUME NEW w \in Writers, MapIndexView(w) PROVE CountInv'
  BY <1>19 DEF MapIndexView
<1>20. ASSUME NEW w \in Writers, CloseIndexMapping(w) PROVE CountInv'
  BY <1>20 DEF CloseIndexMapping
<1>21. ASSUME NEW w \in Writers, LockIndexLength(w) PROVE CountInv'
  BY <1>21 DEF LockIndexLength
<1>22. ASSUME NEW w \in Writers, ExtendIndexFile(w) PROVE CountInv'
  BY <1>22, <1>000 DEF ExtendIndexFile, IndexAlreadyExtended, IndexSequenceFull, IndexExtended
<1>23. ASSUME NEW w \in Writers, PublishIndexLength(w) PROVE CountInv'
  BY <1>23, <1>00 DEF PublishIndexLength
<1>24. ASSUME NEW w \in Writers, UnlockIndexLength(w) PROVE CountInv'
  BY <1>24 DEF UnlockIndexLength
<1>25. ASSUME NEW w \in Writers, RecreateIndexMapping(w) PROVE CountInv'
  BY <1>25 DEF RecreateIndexMapping
<1>26. ASSUME NEW w \in Writers, Die(w) PROVE CountInv'
  BY <1>26 DEF Die
<1>27. ASSUME TimerTick PROVE CountInv'
  BY <1>27 DEF TimerTick
<1>28. ASSUME ScanEntry PROVE CountInv'
  BY <1>28 DEF ScanEntry, LastMapped
<1>29. ASSUME PublishCount PROVE CountInv'
  BY <1>29 DEF PublishCount
<1>30. ASSUME SlideView PROVE CountInv'
  <2>1. CASE xmap' = xmap
    BY <1>30, <2>1 DEF SlideView
  <2>2. CASE xmap' = [xmap EXCEPT !.first = cursor]
    <3>1. cursor = xmap.first + IndexMapUnit /\ cursor < xmap.length
      BY <1>30 DEF SlideView, LastMapped
    <3>2. Aligned(cursor)
      BY <3>1, UnitAligned, AlignedSum
    <3>3. cursor + IndexMapUnit <= xmap.length
      BY <3>1, <3>2, AlignedRoom
    <3> QED
      BY <1>30, <2>2, <3>2, <3>3 DEF SlideView
  <2> QED
    BY <1>30, <2>1, <2>2 DEF SlideView
<1>31. ASSUME ReadIndexLength PROVE CountInv'
  BY <1>31 DEF ReadIndexLength
<1>32. ASSUME LockLength PROVE CountInv'
  BY <1>32 DEF LockLength
<1>33. ASSUME IndexerExtends PROVE CountInv'
  BY <1>33, <1>000 DEF IndexerExtends
<1>34. ASSUME IndexerPublishes PROVE CountInv'
  BY <1>34, <1>00 DEF IndexerPublishes
<1>35. ASSUME UnlockLength PROVE CountInv'
  BY <1>35 DEF UnlockLength
<1>36. ASSUME RemapIndex PROVE CountInv'
  BY <1>36 DEF RemapIndex
<1>37. ASSUME StopEvent PROVE CountInv'
  BY <1>37 DEF StopEvent
<1>38. ASSUME RequestStop PROVE CountInv'
  BY <1>38 DEF RequestStop
<1>39. CASE UNCHANGED vars
  BY <1>39 DEF vars
<1> QED
  BY <1>1, <1>2, <1>3, <1>4, <1>5, <1>6, <1>7, <1>8, <1>9, <1>10,
     <1>11, <1>12, <1>13, <1>14, <1>15, <1>16, <1>17, <1>18, <1>19, <1>20,
     <1>21, <1>22, <1>23, <1>24, <1>25, <1>26, <1>27, <1>28, <1>29, <1>30,
     <1>31, <1>32, <1>33, <1>34, <1>35, <1>36, <1>37, <1>38, <1>39
  DEF Next, WriterStep, IndexerStep

\* The index thread's bookkeeping is an invariant of the cache.
LEMMA CountInvariant == Spec => [](SafetyInv /\ CountInv)
<1>1. Init => CountInv
  BY CountInit
<1>2. SafetyInv /\ CountInv /\ [Next]_vars => CountInv'
  BY CountStep
<1> QED
  BY <1>1, <1>2, Safety, PTL DEF Spec

\* A reader that stays below the published count finds the entry in the index
\* file and the record in the data file, whatever lengths it has read by then.
THEOREM CountedEntriesAreWithinLengths ==
  ASSUME NoWrap
  PROVE  Spec /\ []OffsetsFit => []CountedWithinLengths
<1>1. ASSUME SafetyInv, CommitInv, CountInv, OffsetsFit
      PROVE  CountedWithinLengths
  <2> SUFFICES ASSUME NEW s \in 0 .. NumberOfRecords - 1
               PROVE  /\ s < IndexFileLength
                      /\ index[s].Offset + index[s].Length <= DataFileLength
    BY DEF CountedWithinLengths
  <2>0. /\ NumberOfRecords \in Nat /\ cursor \in Nat /\ IndexFileLength \in Nat
        /\ xmap.first \in Nat /\ IndexMapUnit \in Nat
        /\ DataValidLength \in Nat /\ DataFileLength \in Nat
    BY <1>1, SizesAssumption DEF SafetyInv, TypeOK, TypeIndexer, TypePage
  <2>1. s < IndexFileLength
    BY <1>1, <2>0 DEF CountInv, ViewInFile
  <2>2. s \in Slots /\ index[s].Committed
    BY <1>1 DEF SafetyInv, CountedAreCommitted, Committed
  <2>3. PICK r \in data : r.size = index[s].Length /\ r.start = index[s].Offset
    BY <1>1, <2>2, CommittedNames
  <2>4. r.start \in Nat /\ r.size \in Nat /\ r.start + r.size <= DataValidLength
    BY <1>1 DEF SafetyInv, TypeOK, TypeFiles, Record, RecordsDisjoint, Placed
  <2>5. DataValidLength <= DataFileLength
    BY <1>1 DEF SafetyInv, LengthsInFlight, PublishedLengthsBacked
  <2> QED
    BY <2>0, <2>1, <2>3, <2>4, <2>5
<1> QED
  BY <1>1, CommitInvariant, CountInvariant, PTL

\* A reader below the published count (MspCopyRecord) finds a committed entry,
\* and both it and its record within the lengths that the global page shows.
THEOREM CountedEntriesAreReadable ==
  ASSUME NoWrap
  PROVE  Spec /\ []OffsetsFit => []CountedAreReadable
<1>1. CountedAreCommitted /\ CountedWithinLengths => CountedAreReadable
  BY DEF CountedAreReadable
<1> QED
  BY <1>1, CountedEntriesAreCommitted, CountedEntriesAreWithinLengths, PTL

\* What a reader sees of the cache at first.
LEMMA LogInit == ASSUME Init PROVE Log!Init
<1>1. {s \in Slots : index[s].Committed} = {}
  BY DEF Init, NoEntry
<1>2. CommittedLog = << >>
  BY <1>1 DEF CommittedLog
<1> QED
  BY <1>2 DEF Init, Log!Init

\* Steps that write no entry leave the log, and hand out a number, show what
\* was counted, or change nothing a reader sees.
LEMMA LogKept ==
  ASSUME SafetyInv, CountInv, [Next]_vars, index' = index
  PROVE  [Log!Next]_(Log!logVars)
<1>0. CommittedLog' = CommittedLog
  BY DEF CommittedLog, Slots
<1>1. ASSUME NEW w \in Writers, NEW size \in RecordSizes, AcquireSequence(w, size)
      PROVE  Log!Claim
  BY <1>0, <1>1 DEF AcquireSequence, Log!Claim, indexerVars
<1>2. ASSUME PublishCount PROVE [Log!Show]_NumberOfRecords /\ issued' = issued
  <2>1. NumberOfRecords' = cursor /\ issued' = issued
    BY <1>2 DEF PublishCount, boundVars
  <2>2. NumberOfRecords <= cursor /\ NumberOfRecords \in Nat /\ cursor \in Nat
    BY DEF SafetyInv, TypeOK, TypeIndexer, CountInv, ViewInFile
  <2>3. 0 .. cursor - 1 \subseteq DOMAIN CommittedLog
    BY DEF SafetyInv, CountedAreCommitted, Committed, CommittedLog
  <2> QED
    BY <1>0, <2>1, <2>2, <2>3 DEF Log!Show
<1>3. ASSUME NEW w \in Writers, WriterStep(w) \/ Die(w)
      PROVE  UNCHANGED <<issued, NumberOfRecords>>
  BY <1>3
  DEF WriterStep, CreateDataMapping, ReadDataMappingLength, CreateIndexMapping,
      ReadIndexMappingLength, ReadFileLength, ReadValidLength, ClaimPosition,
      LockDataLength, ExtendDataFile, PublishDataLength, UnlockDataLength, CopyRecord,
      MapDataView, RecreateDataMapping, ReadRecreatedLength, FillEntry, CommitEntry,
      MapIndexView, CloseIndexMapping, LockIndexLength, ExtendIndexFile,
      PublishIndexLength, UnlockIndexLength, RecreateIndexMapping, Die, indexerVars, boundVars
<1>4. IndexerStep \/ RequestStop \/ UNCHANGED vars
        => PublishCount \/ UNCHANGED <<issued, NumberOfRecords>>
  BY DEF IndexerStep, RequestStop, vars, TimerTick, ScanEntry, SlideView,
         ReadIndexLength, LockLength, IndexerExtends, IndexerPublishes, UnlockLength,
         RemapIndex, StopEvent, indexerVars, boundVars
<1> QED
  BY <1>0, <1>1, <1>2, <1>3, <1>4 DEF Next, Log!Next, Log!logVars

\* Filling an entry shows nothing.
LEMMA LogFilled ==
  ASSUME SafetyInv, NEW w \in Writers, OwnEntry(w), FillEntry(w),
         index'[rec[w].seq].Committed = FALSE
  PROVE  UNCHANGED Log!logVars
<1>1. UNCHANGED <<issued, NumberOfRecords>>
  BY DEF FillEntry, indexerVars, boundVars
<1>2. \A t \in Slots : /\ index'[t].Committed <=> index[t].Committed
                       /\ index[t].Committed => index'[t] = index[t]
  BY DEF OwnEntry
<1>3. {t \in Slots : index'[t].Committed} = {t \in Slots : index[t].Committed}
  BY <1>2
<1>4. CommittedLog' = CommittedLog
  BY <1>2, <1>3 DEF CommittedLog, Slots
<1> QED
  BY <1>1, <1>4 DEF Log!logVars

\* Committing an entry adds it to the log, apart from the records there.
LEMMA LogCommitted ==
  ASSUME NoWrap, SafetyInv, CommitInv, OffsetsFit, CommitInv', SafetyInv',
         NEW w \in Writers, OwnEntry(w), CommitEntry(w), index'[rec[w].seq].Committed
  PROVE  Log!Commit
<1> DEFINE s == rec[w].seq
<1>1. UNCHANGED <<issued, NumberOfRecords, data, DataValidLength>> /\ pc[w] = "commit"
  BY DEF CommitEntry, indexerVars, boundVars, lengthVars
<1>2. s \in Slots /\ ~index[s].Committed /\ \A t \in Slots : t # s => index'[t] = index[t]
  BY DEF OwnEntry
<1>3. s \in 0 .. issued - 1
  <2>1. s < issued
    BY <1>1 DEF CommitInv, SequenceOwned, Queueing, Indexing
  <2>2. s \in Nat /\ issued \in Nat
    BY <1>2, SizesAssumption DEF Slots, SafetyInv, TypeOK, TypeBounds
  <2> QED
    BY <2>1, <2>2
<1>4. /\ DOMAIN CommittedLog = {t \in Slots : index[t].Committed}
      /\ DOMAIN CommittedLog' = {t \in Slots : index'[t].Committed}
  BY DEF CommittedLog, Slots
<1>5. s \notin DOMAIN CommittedLog /\ DOMAIN CommittedLog' = DOMAIN CommittedLog \cup {s}
  BY <1>2, <1>4
<1>6. ASSUME NEW t \in DOMAIN CommittedLog
      PROVE  /\ CommittedLog'[t] = CommittedLog[t]
             /\ ~Log!Overlap(CommittedLog[t], CommittedLog'[s])
  <2>1. t \in Slots /\ t # s /\ index[t].Committed /\ index'[t] = index[t]
    BY <1>2, <1>4
  <2>2. /\ CommittedLog[t] = [Length |-> index[t].Length, Offset |-> index[t].Offset]
        /\ CommittedLog'[t] = [Length |-> index[t].Length, Offset |-> index[t].Offset]
        /\ CommittedLog'[s] = [Length |-> index'[s].Length, Offset |-> index'[s].Offset]
    BY <1>2, <2>1 DEF CommittedLog, Slots
  <2>3. OffsetsFit'
    BY <1>1 DEF OffsetsFit
  <2>4. PICK r \in data : r.seq = t /\ r.size = index[t].Length /\ r.start = index[t].Offset
    BY <2>1, CommittedNames
  <2>5. PICK q \in data : q.seq = s /\ q.size = index'[s].Length /\ q.start = index'[s].Offset
    <3>1. Names(index'[s], rec[w]) /\ rec[w] \in data
      BY <1>1 DEF OwnEntry, CommitInv, EntriesNameRecords, Indexing, FillEntry
    <3>2. /\ rec[w].start \in Nat /\ rec[w].size \in Nat
          /\ DataValidLength \in Nat /\ OffsetModulus \in Nat
          /\ rec[w].start + rec[w].size <= DataValidLength
      BY <3>1, SizesAssumption
      DEF SafetyInv, TypeOK, TypeFiles, TypePage, Record, RecordsDisjoint, Placed
    <3>3. rec[w].start < OffsetModulus
      BY <3>2 DEF OffsetsFit
    <3>4. rec[w].start % OffsetModulus = rec[w].start
      BY <3>2, <3>3, SmallRemainder
    <3> QED
      BY <3>1, <3>4 DEF Names
  <2>6. Disjoint(r, q)
    BY <2>1, <2>4, <2>5 DEF SafetyInv, RecordsDisjoint, Placed
  <2>7. r.start \in Nat /\ r.size \in Nat /\ q.start \in Nat /\ q.size \in Nat
    BY DEF SafetyInv, TypeOK, TypeFiles, Record
  <2>8. ~Log!Overlap(CommittedLog[t], CommittedLog'[s])
    BY <2>2, <2>4, <2>5, <2>6, <2>7 DEF Disjoint, Log!Overlap
  <2> QED
    BY <2>2, <2>8
<1> QED
  BY <1>1, <1>3, <1>5, <1>6 DEF Log!Commit

\* Whatever the writers and the index thread do, and whoever of them fails or
\* is terminated, readers see RecordLog (btr/cache.c, dprobe/mspdtl.c).
THEOREM CacheImplementsLog ==
  ASSUME NoWrap
  PROVE  Spec /\ []OffsetsFit => ImplementsLog
<1>1. Init => Log!Init
  BY LogInit
<1>2. /\ SafetyInv /\ CommitInv /\ CountInv /\ OffsetsFit
      /\ SafetyInv' /\ CommitInv' /\ [Next]_vars
      => [Log!Next]_(Log!logVars)
  <2> SUFFICES ASSUME SafetyInv, CommitInv, CountInv, OffsetsFit, SafetyInv',
                      CommitInv', [Next]_vars
               PROVE  [Log!Next]_(Log!logVars)
    OBVIOUS
  <2>1. CASE index' = index
    BY <2>1, LogKept
  <2>2. ASSUME NEW w \in Writers, OwnEntry(w) PROVE [Log!Next]_(Log!logVars)
    <3>1. CASE FillEntry(w) /\ index'[rec[w].seq].Committed = FALSE
      BY <2>2, <3>1, LogFilled
    <3>2. CASE CommitEntry(w) /\ index'[rec[w].seq].Committed
      BY <2>2, <3>2, LogCommitted DEF Log!Next
    <3> QED
      BY <2>2, <3>1, <3>2 DEF OwnEntry
  <2> QED
    BY <2>1, <2>2, EntryWrites DEF SafetyInv
<1> QED
  BY <1>1, <1>2, CommitInvariant, CountInvariant, PTL DEF Spec, ImplementsLog, Log!Spec
================================================================================
