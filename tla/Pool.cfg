CONSTANTS
  Threads = {main, t1, t2}
  Getters = {main, t1}
  Spaces = {s1, s2}
  Limit = 2
  MaxUses = 2
  NoSpace = NoSpace
  NoThread = NoThread
SPECIFICATION FairSpec
INVARIANTS NoSharing Asserts NoneLost
PROPERTIES CallsEnd Implements
