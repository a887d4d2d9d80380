CONSTANTS
  Requests <- MixedRequests
  NoRequest = NoRequest
  LineLength = 2
  BufferSize = 5
  HeaderLength = 3
  SendBuffer = 2
  Leftovers = {0}
  MaxAnswers = 2
  MaxPaths = 2
SPECIFICATION FairSpec
INVARIANTS
  TypeOK
  ResponseWhole
  FilesBalanced
  SinglePath
  KeepAliveKept
PROPERTIES
  Answered
  ImplementsExchange
CHECK_DEADLOCK FALSE
