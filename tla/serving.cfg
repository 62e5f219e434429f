CONSTANTS
  Graphs <- MCGraphs
  Programs = {"window", "policy", "pass"}
  MaxInFlight = 2
  MaxWindows = 2
  MaxFaults = 1
SPECIFICATION Spec
INVARIANTS
  FinalizedIsSound
PROPERTIES
  ImplementsContract WindowsEnd
CHECK_DEADLOCK FALSE
