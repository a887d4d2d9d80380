CONSTANTS
  Threads = {t1, t2}
  Conns = {c1, c2}
  NoConn = NoConn
  KEEP_ALIVE_TIMEOUT = 2
  MaxStall = 1
  MaxAge = 6
  t1 = t1
  t2 = t2
  c1 = c1
  c2 = c2
SPECIFICATION FairSpec
INVARIANTS
  ClosedInTime
  LeftBehind
PROPERTY SigintEnds
CHECK_DEADLOCK FALSE
