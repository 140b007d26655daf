SPECIFICATION AllSpec
CONSTANTS
  UrlOptions <- MCOptions
  MaxSize = 2
  Size = 4
  Capacity = 2
  ReadBack = 1
  Short = 1
  Chunk = 2
  Modulus = 16
  FifoBytes = 11
  MaxLen = 2
  MaxDatagrams = 3
  MaxSignals = 1
  MaxRequests = 5
INVARIANTS DataAtPosition Receives OwnReply ShortOnlyAtEnd
PROPERTIES ImplementsStream UrlReturns
