CONSTANTS
  MaxWorkers = 3
  EpochMod = 2
  Requests <- MixedRequests
SPECIFICATION FairSpec
INVARIANTS TypeOK WorkersInside
PROPERTIES WaitsEnd ImplementsBandDispatch
CHECK_DEADLOCK FALSE
