SPECIFICATION DecodeSpec
CONSTANTS
  Delay = 1
  MaxParts = 2
  nb_errors_max = 1
INVARIANTS DrainedCompletely
