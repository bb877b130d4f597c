CONSTANTS
  t1 = t1
  t2 = t2
  Threads = {t1, t2}
  NewThreads = {t2}
  MaxProbes = 1
  MaxDepth = 2
  MaxFaults = 1
SPECIFICATION Spec
CHECK_DEADLOCK FALSE
INVARIANTS
  TypeOK
  NoUseAfterFree
  ObjectsHeld
  UnloadedIsQuiet
PROPERTIES
  UnloadCompletes
