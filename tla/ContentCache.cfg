SPECIFICATION Spec
CONSTANTS
  Versions = {v1, v2}
  Families = {"archive", "project", "keeping", "executable", "cabinet", "installer", "prepared"}
  MaxFaults = 3
  None = None
  Torn = Torn
INVARIANTS TypeOK ServedIsWhole
PROPERTIES Recovers
