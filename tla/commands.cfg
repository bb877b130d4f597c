CONSTANTS
  MaxCommands = 4
  MaxTicks = 1
  MaxFaults = 2
SPECIFICATION Spec
CHECK_DEADLOCK FALSE
INVARIANTS
  TypeOK
  PacketsAllocated
  OkMeansApplied
PROPERTIES
  Answered
