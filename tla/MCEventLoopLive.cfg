CONSTANTS
  Threads = {t1, t2}
  Fds = {f1}
  Clients = {c1}
  NoClient = NoClient
  NoFd = NoFd
  NoThread = NoThread
  Listen = Listen
  KEEP_ALIVE_TIMEOUT = 1
  Pieces = 1
  MaxRequests = 2
  MaxTime = 2
  t1 = t1
  t2 = t2
  f1 = f1
  c1 = c1
SPECIFICATION FairSpec
PROPERTIES
  RequestRead
  ServedIdleClosed
CHECK_DEADLOCK FALSE
