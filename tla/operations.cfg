\* Two instances, two requests in flight, one toy contract beside Qwen's.
CONSTANTS
  Ids = {i1, i2}
  Requests = {r1, r2}
  None = None
  Offered <- MCOffered
  Wanted <- MCWanted
  MaxInstances = 2
  Inputs <- MCInputs
  Bundles <- MCBundles
  Results <- MCResults
  ChunkLen = 4
  MaxForwards = 1
  MaxSteps = 1
  MaxDowns = 2
  MaxOverlaps = 1
  MaxFaults = 1
SYMMETRY MCSymmetry
SPECIFICATION Spec
INVARIANTS
  CommittedStreamsValid
  PublishedDecodes
  StepsReturn
  ListedAndRouted
CHECK_DEADLOCK FALSE
