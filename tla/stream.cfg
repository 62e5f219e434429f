CONSTANTS
  r1 = r1
  r2 = r2
  Readers = {r1, r2}
  Policies = {"replay", "ephemeral"}
  Producers = {"mass", "sun", "requests"}
  ReaderKinds = {"mass", "sun", "flow"}
  Transfer = t1
  Begin <- MCBegin
  Payloads <- MCPayloads
  MaxParts = 2
  MaxFaults = 2
SPECIFICATION StreamSpec
INVARIANTS
  ReceivedIsDurable NobodyGivesUpEarly
PROPERTIES
  ReadersEnd
CHECK_DEADLOCK FALSE
