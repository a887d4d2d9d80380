CONSTANTS
  Threads = {t1}
  Requests <- GzipRequests
  MaxHeaders = 2
  Count = 2
  SIZE = 4
  MaxDelivered = 4
  Lengths = {1, 2}
  MaxEdits = 1
  MaxTouches = 1
  t1 = t1
SPECIFICATION ServicesSpec
INVARIANT FreshBody
CHECK_DEADLOCK FALSE
