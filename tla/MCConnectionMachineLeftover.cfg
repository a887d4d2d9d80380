CONSTANTS
  Requests <- Pages
  NoRequest = NoRequest
  LineLength = 2
  BufferSize = 5
  HeaderLength = 3
  SendBuffer = 2
  Leftovers = {0, 4}
  MaxAnswers = 2
  MaxPaths = 2
SPECIFICATION Spec
INVARIANT WholeRequest
CHECK_DEADLOCK FALSE
