CONSTANTS
  Threads = {t1, t2}
  Fds = {f1, f2}
  Clients = {c1, c2}
  NoClient = NoClient
  NoFd = NoFd
  NoThread = NoThread
  Listen = Listen
  KEEP_ALIVE_TIMEOUT = 1
  Pieces = 2
  MaxRequests = 2
  MaxTime = 1
  t1 = t1
  t2 = t2
  f1 = f1
  f2 = f2
  c1 = c1
  c2 = c2
SYMMETRY Symmetry
SPECIFICATION Spec
INVARIANTS
  NoOrphan
  BacklogWatched
  ArmedWhenProcessedAlone
  NeverDiesAlone
PROPERTIES
  OnlyIdleExpireAlone
  ExchangeAlone
CHECK_DEADLOCK FALSE
