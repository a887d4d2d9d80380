CONSTANTS
  Threads = {t1, t2}
  Requests <- SomeRequests
  MaxHeaders = 2
  Count = 2
  SIZE = 4
  MaxDelivered = 4
  Lengths = {1, 2}
  MaxEdits = 1
  MaxTouches = 1
  t1 = t1
  t2 = t2
SYMMETRY Symmetry
SPECIFICATION ServicesSpec
INVARIANTS
  HeadersOwn
  TemplateOnce
  CacheWhole
  BodyWhole
CHECK_DEADLOCK FALSE
