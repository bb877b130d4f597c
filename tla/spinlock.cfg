CONSTANTS
  t1 = t1
  t2 = t2
  t3 = t3
  Threads = {t1, t2, t3}
  Mortal = {t1, t2}
  NoThread = NoThread
  SpinCount = 2
  MaxDeaths = 3
SPECIFICATION Spec
INVARIANTS
  TypeOK
PROPERTIES
  ImplementsMutex
  SomeoneEnters
