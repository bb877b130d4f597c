CONSTANTS
  MaxCommands = 3
  MaxTicks = 0
  MaxFaults = 0
SPECIFICATION Spec
CHECK_DEADLOCK FALSE
PROPERTIES
  EveryCommandAnswered
