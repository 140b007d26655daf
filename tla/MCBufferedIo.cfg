SPECIFICATION Spec
CONSTANTS
  IO_BUFFER_SIZE = 2
  BufferSizes = {2, 4}
  ShortSeek = 1
  ReadSize = 5
  Sources <- AllSources
  MaxRead = 3
  MaxWindow = 2
  MaxFile = 3
  Marks = {"a", "b"}
  Sinks <- AllSinks
  MaxWrite = 2
  CacheSize = 3
  MaxCacheRead = 2
  Disk = 3
  Prots <- AllProts
INVARIANTS BytesRead BytesWritten SeekbackAvailable
PROPERTIES SeeksLand CallsReturn
