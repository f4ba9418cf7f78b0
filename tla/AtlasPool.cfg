CONSTANTS
  NPages = 3
  Corrupt = {1}
  Sourceless = {2}
  MaxThreads = 2
  Budget = 1
  MaxMoves = 1
SPECIFICATION FairSpec
INVARIANTS TypeOK DecodedByOne LedgersExact
PROPERTIES ResultIsThePage WaitsEnd
CHECK_DEADLOCK FALSE
