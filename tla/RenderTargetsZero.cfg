CONSTANTS
  Id = {s1}
  Pixel = {p1}
  Plane = {m1, m2}
  Depth = 2
  Clear = Clear
  Solid = Solid
  None = None
  Programs <- MCPrograms
  Habits = {"zero"}
SPECIFICATION TargetsSpec
SYMMETRY Alike
VIEW Apart
PROPERTY ActsAtOnce
