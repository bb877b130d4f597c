CONSTANTS
  Kinds = {"dtl", "dtlfiltered", "csv", "csvfiltered"}
  RecordSizes = {1, 2}
  DataMapUnit = 3
  IndexMapUnit = 1
  CopyUnit = 2
  CsvRound = 2
  MaxRecords = 3
  MaxFaults = 1
SPECIFICATION FairSpec
CHECK_DEADLOCK FALSE
INVARIANTS
  TypeOK
  
  ContextFreedOnce
  CleansUp
PROPERTIES
  DialogAnswered
