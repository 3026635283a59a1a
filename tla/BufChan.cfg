CONSTANTS
  Threads = {t1, t2, t3}
  Values = {a, b}
  Nil = Nil
  MaxCalls = 2
SPECIFICATION Spec
INVARIANTS TypeOK NoLostWakeup
PROPERTIES RemoveReturns FifoSpec
CHECK_DEADLOCK FALSE
