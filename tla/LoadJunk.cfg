CONSTANTS
  Buf = 3
  Trailer = 2
  MaxFiles = 3
  Programs <- Junk
SPECIFICATION Spec
INVARIANTS LoadsInd
