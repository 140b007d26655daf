SPECIFICATION CodecSpec
CONSTANTS
  MaxThreads = 3
  Pools <- MCPools
  WavePools <- MCWavePools
  MaxJobs = 4
  Width = 3
  BUFFER_SIZE = 4
  ThreadCounts = {2}
  MaxFrames = 5
INVARIANTS BatchesExact NeverAhead OneWaiter RowsComplete NothingLeaked
PROPERTIES ImplementsLoop ResultsInOrder CodecReturns
