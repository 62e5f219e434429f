\* The transfers of one id, and the calls of two callers: a file that fits in a frame,
\* one that takes two parts and a bit, and one stored that is two parts exactly.
SPECIFICATION MCSpec
CONSTANTS
  t1 = t1
  t2 = t2
  u1 = u1
  Transfers = {t1}
  Declarations <- Mixed
  Payloads <- MCPayloads
  Bytes = {"a", "b"}
  Uploaders = {}
  NoBytes = NoBytes
  NoUpload = NoUpload
  MaxParts = 2
  MaxObjects = 3
  MaxNow = 2
  MaxFaults = 1
  MaxRestarts = 1
  Callers = {c1, c2}
  Nothing = Nothing
  ObjectIds = {1, 2, 3}
  FileSizes = {3, 5}
  StoredSize = 4
  FrameLimit = 3
  VoidFrameLimit = 4
  PartLen = 2
  MaxTasks = 2
  MaxErrors = 1
SYMMETRY MCSymmetry
INVARIANTS
  CommittedIsWhole
  AckedChunksListed
  VerdictStands
  NoOrphans
  CallsMeanTheSame
  FilesComeBackWhole
PROPERTIES
  ImplementsContract
CHECK_DEADLOCK FALSE
