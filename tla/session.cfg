SPECIFICATION Spec
CONSTRAINT Studied
SYMMETRY MCSymmetry
CONSTANTS
  m1 = m1
  m2 = m2
  r1 = r1
  r2 = r2
  r3 = r3
  Models = {m1, m2}
  Requests = {r1, r2}
  NoRequest = NoRequest
  MaxInstances = 1
  Frozen = FALSE
  Oscillations <- Windows
  NoOscillation = NoOscillation
  MaxStarts = 2
  MaxSteps = 8
INVARIANTS
  WeightsInStep
  WithinCapacity
  RegistriesAgree
  CyclesTrain
PROPERTIES
  NoUseAfterUnload
CHECK_DEADLOCK FALSE
