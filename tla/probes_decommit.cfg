CONSTANTS
  t1 = t1
  t2 = t2
  Threads = {t1, t2}
  NewThreads = {}
  MaxProbes = 1
  MaxDepth = 1
  MaxFaults = 0
SPECIFICATION Spec
CHECK_DEADLOCK FALSE
PROPERTIES
  SafeToDecommit
