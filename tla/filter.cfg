CONSTANTS
  Window = Window
  Worker = Worker
  Conditions = {{0, 1, 2, 3, 4, 5}, {1, 2, 4}}
  ViewUnit = 2
  FileIncrement = 4
  ScanStep = 2
  TimerStep = 3
  MaxRecords = 6
  MaxAttaches = 2
  MaxFaults = 1
SPECIFICATION FairSpec
CHECK_DEADLOCK FALSE
INVARIANTS
  TypeOK
  FilterHoldsMatches
  FilterUsedByOne
  CopiedMatches
PROPERTIES
  CopyEnds
  EverythingScanned
