CONSTANTS
  Size = 2
  Dict = 2
  Procs = 2
  InLimit = 4
  OutBound = 5
  MaxJobs = 8
  Programs <- MCPrograms
  Null = Null
SPECIFICATION FairSpec
INVARIANTS OutputIsInput JobsSafe MovesUnshared Asserts
PROPERTIES StreamsEnd
