CONSTANTS
  Threads = {t1, t2}
  NoThread = NoThread
  Descriptors = {2, 3, 4}
  MaxClients = 1
  MaxDay = 1
  t1 = t1
  t2 = t2
SPECIFICATION FairSpec
INVARIANTS
  OneLogFile
  NameNotAhead
  LinePlaced
PROPERTIES
  CallEnds
  LogCatchesUp
