CONSTANTS
  Viewer = Viewer
  Scanner = Scanner
  Reports = {TRUE, FALSE}
  RecordSizes = {2}
  DataIncrement = 3
  DataMapUnit = 3
  IndexIncrement = 2
  IndexMapUnit = 2
  MaxRecords = 3
  MaxFaults = 1
SPECIFICATION FairSpec
CHECK_DEADLOCK FALSE
INVARIANTS
  TypeOK
  CopiesAskedRecord
PROPERTIES
  CopyReturns
