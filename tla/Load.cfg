CONSTANTS
  Buf = 3
  Trailer = 2
  MaxFiles = 3
  Programs <- Careful
SPECIFICATION FairSpec
INVARIANTS LoadsInd TrailerIsEnd NoneLeft
PROPERTIES Ends
