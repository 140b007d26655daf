SPECIFICATION Spec
CONSTANTS
  T = 3
  Codecs <- ThreeThreadCodecs
  MaxSub = 4
  MaxFlush = 1
INVARIANTS SerialContext
PROPERTIES NoResultOverwritten ImplementsPipeline
