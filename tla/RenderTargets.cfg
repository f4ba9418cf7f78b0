CONSTANTS
  Id = {s1, s2}
  Pixel = {p1}
  Plane = {m1, m2}
  Depth = 2
  Clear = Clear
  Solid = Solid
  None = None
  Programs <- MCPrograms
  Habits = {}
SPECIFICATION TargetsSpec
SYMMETRY Alike
VIEW Apart
INVARIANTS TargetsTypeOK BorrowedIsCoherent
PROPERTY ActsAtOnce
