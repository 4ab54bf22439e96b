CONSTANTS
  Threads = {t1, t2, t3}
  Values = {0, 1}
  Initial = 0
  None = None
SPECIFICATION FairSpec
INVARIANTS NoLostWakeup
PROPERTIES WaitsEnd Implements
