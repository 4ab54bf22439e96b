CONSTANTS
  MaxThreads = 2
  BlockSize = 2
  Plans <- FinishedPlans
  Rooms = {2}
  Reuses = {"end"}
SPECIFICATION FinishingSpec
INVARIANTS OutputIsInput ThreadsAccounted
PROPERTIES Implements CallsReturn FinishEnds
