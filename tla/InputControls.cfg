SPECIFICATION Spec
CONSTANTS
  Hosts = {{"keyboard"}, {"pad"}, {"mouse"}}
  None = None
INVARIANTS TypeOK ClearHolds
PROPERTIES PressesExact MouseClearExact
