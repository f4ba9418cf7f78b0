SPECIFICATION Spec
CONSTANTS
  NSlots = 1
  GenMod = 2
  MaxUses = 2
  Placed = {a}
  Dynamic = {}
  MaxDepth = 2
  MaxBeside = 2
  MaxFrames = 2
  Sites = {w}
  None = None
INVARIANT ParkedStructsLive
