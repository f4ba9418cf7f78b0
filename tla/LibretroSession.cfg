SPECIFICATION Spec
CONSTANTS
  Needs = {2, 30}
  Pictures = {4, 40}
  None = None
INVARIANTS
  TypeOK
  ContextFits
  AvTold
PROPERTIES
  SlotsAreKept
