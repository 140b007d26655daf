SPECIFICATION Spec
CONSTANTS
  T = 2
  Codecs <- TwoThreadCodecs
  MaxSub = 3
  MaxFlush = 0
INVARIANTS HwaccelExclusive
PROPERTIES CallsReturn PacketsFinish
