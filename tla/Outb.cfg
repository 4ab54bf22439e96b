CONSTANTS
  MaxPieces = 3
  MaxStreams = 2
SPECIFICATION OutbFairSpec
INVARIANTS InOrder StreamDone
PROPERTIES OutbReturns
