CONSTANTS
  Kinds = {"dtl"}
  RecordSizes = {1, 2}
  DataMapUnit = 3
  IndexMapUnit = 1
  CopyUnit = 2
  CsvRound = 2
  MaxRecords = 3
  MaxFaults = 0
SPECIFICATION Spec
CHECK_DEADLOCK FALSE
INVARIANTS
  OffsetsNeedNoAdjusting
