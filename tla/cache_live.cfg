CONSTANTS
  w1 = w1
  w2 = w2
  Writers = {w1, w2}
  IndexThread = IndexThread
  NoThread = NoThread
  Mortal = {}
  RecordSizes = {1}
  DataIncrement = 2
  DataMapUnit = 2
  IndexIncrement = 2
  IndexMapUnit = 2
  MaxIndexEntries = 4
  SequenceModulus = 16
  EntryModulus = 16
  OffsetModulus = 64
  GarbageLengths = {0, 5}
  GarbageStatusOk = {TRUE, FALSE}
  MaxRecords = 3
  MaxFaults = 0
SPECIFICATION FairSpec
CHECK_DEADLOCK FALSE
PROPERTIES
  PrefixCounted
  WriterReturns
  StopCompletes
  ImplementsLog
