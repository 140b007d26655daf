SPECIFICATION Spec
CONSTANTS
  Delay = 1
  MaxParts = 1
  nb_errors_max = 0
  max_size = 2
  MaxPackets = 3
  MaxSeeks = 1
INVARIANTS SerialMatches SlotsExclusive EndMeansAllShown
PROPERTIES CloseReturns
