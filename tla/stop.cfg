CONSTANTS
  CacheSize = 3
  MaxQueue = 2
  MaxFaults = 2
SPECIFICATION Spec
CHECK_DEADLOCK FALSE
INVARIANTS
  TypeOK
  CachedNeverFreed
PROPERTIES
  StopCompletes
  WorkGoesOn
