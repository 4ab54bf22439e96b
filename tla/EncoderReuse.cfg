CONSTANTS
  MaxThreads = 2
  BlockSize = 2
  Plans <- FailedPlans
  Rooms = {2}
  Reuses = {"end", "error"}
SPECIFICATION Spec
INVARIANTS OutputIsInput
