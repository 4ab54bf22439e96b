CONSTANTS
  Size = 4
  Dict = 3
  MaxLength = 11
  Base = 3
  Half = 2
  Order = 4
  Poly = {2, 3}
  BlockSizes = {31, 32, 33, 4096, 8192}
  Gaps = {63, 64, 32831, 32832, 4194304, 4227136}
  Rests = {0, 127}
  MaxLens <- HitsOf
  Width = 16
  Y = 2
  MaxClears = 1
SPECIFICATION BenchSpec
INVARIANTS BothStayInside DictionaryIsWindow HashedInOrder SameBlocks SameTrailer BlocksAsAsked TextBack
PROPERTIES JobsAreInput
