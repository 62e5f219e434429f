SPECIFICATION FairSpec
CONSTANTS
  t1 = t1
  t2 = t2
  u1 = u1
  Transfers = {t1, t2}
  Declarations <- TwoChunks
  Payloads <- OnePayload
  Bytes = {"a", "b"}
  Uploaders = {u1}
  NoBytes = NoBytes
  NoUpload = NoUpload
  MaxParts = 2
  MaxObjects = 2
  MaxNow = 2
  MaxFaults = 0
  MaxRestarts = 1
PROPERTIES
  LeasesEnd
CHECK_DEADLOCK FALSE
