SPECIFICATION FairSpec
CONSTANTS
  Cap = 5
  Objects = {0, 1}
  Family <- MCFamily
  Rooms = {0, 1}
  KeptObject = {1}
  Policies = {"classic", "live", "snapshot"}
  Placed <- MCPlaced
  Starts <- MCStarts
  PersistentRoom = {0}
  ChainLimit = 2
  Habits = {}
  MaxOps = 3
INVARIANTS TypeOK IndexesExact IdentityKept NobodyLeftBehind
PROPERTIES RightEvents LivesKept RequestServed
