SPECIFICATION FairSpec
CONSTANTS
  cell = cell
  boundary = boundary
  fusion = fusion
  cellIn = cellIn
  boundaryIn = boundaryIn
  left = left
  right = right
  Nodes = {cell, boundary, fusion}
  Ports = {cellIn, boundaryIn, left, right}
  Owner <- SkewedOwner
  Targets <- SkewedTargets
  ModelFree = {boundary}
  GradSteps = 2
  NoMailbox = NoMailbox
  MaxLost = 1
  MaxFaults = 1
  MaxEpochs = 2
INVARIANTS
  PairsCompareSides
  LossesFitWeights
PROPERTY
  EveryStepEnds
CHECK_DEADLOCK FALSE
