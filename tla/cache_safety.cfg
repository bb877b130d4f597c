CONSTANTS
  w1 = w1
  w2 = w2
  Writers = {w1, w2}
  IndexThread = IndexThread
  NoThread = NoThread
  Mortal = {w1, w2}
  RecordSizes = {2}
  DataIncrement = 3
  DataMapUnit = 3
  IndexIncrement = 2
  IndexMapUnit = 2
  MaxIndexEntries = 6
  SequenceModulus = 16
  EntryModulus = 16
  OffsetModulus = 64
  GarbageLengths = {0, 5}
  GarbageStatusOk = {TRUE, FALSE}
  MaxRecords = 3
  MaxFaults = 1
SPECIFICATION Spec
SYMMETRY Symmetric
CHECK_DEADLOCK FALSE
INVARIANTS
  TypeOK
  LengthsInFlight
  RecordsDisjoint
  CountedAreReadable
  CommittedIsWritten
PROPERTIES
  CommittedImmutable
