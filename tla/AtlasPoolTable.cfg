CONSTANTS
  NPages = 2
  Corrupt = {}
  Sourceless = {}
  MaxThreads = 1
  Budget = 1
  MaxMoves = 1
SPECIFICATION Spec
INVARIANTS DecodesIntoLiveTable
CHECK_DEADLOCK FALSE
