SPECIFICATION Spec
CONSTANTS
  Threads = {t1, t2, t3}
  Msg = {m1, m2}
  Errors = {EOF}
  nelem = 1
INVARIANTS NoLostWakeup FifoExactlyOnce
PROPERTIES ErrorsRelease ImplementsChannel
CHECK_DEADLOCK FALSE
