SPECIFICATION Spec
CONSTANTS
  NSlots = 1
  GenMod = 2
  MaxUses = 2
  Placed = {a}
  Dynamic = {b}
  MaxDepth = 3
  MaxBeside = 2
  MaxFrames = 2
  Sites = {w}
  None = None
INVARIANTS TypeOK ChainIsWhole HandlesHold
PROPERTIES OutstandingKept
