SPECIFICATION UsersSpec
CONSTANTS
  Main = main
  Writer = writer
  EOF = EOF
  EIO = EIO
  EINVAL = EINVAL
  EXIT = EXIT
  Threads <- MCThreads
  Msg <- MCMsg
  Errors <- MCErrors
  OptionSets <- PassOptions
  nelem = 1
  Order <- Three
  m1 = m1
  m2 = m2
  m3 = m3
  MaxLoops = 1
INVARIANTS EveryPacket OutputWellFormed
PROPERTIES EndAfterPackets UsersReturn
