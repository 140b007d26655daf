SPECIFICATION Spec
CONSTANTS
  Threads = {t1, t2, t3}
  MaxBuffers = 2
  MaxRefs = 2
  MaxBlocks = 3
SYMMETRY Symmetry
INVARIANTS NoUseAfterFree WritableExclusive AllFreed
