CONSTANTS
  P = 2
  M = 3
  R = 2
  MaxSteps = 1
  MaxFaults = 1
SPECIFICATION Spec
INVARIANTS
  GradientsFitGraphs
PROPERTIES
  ImplementsContract EveryRunEnds
CHECK_DEADLOCK FALSE
