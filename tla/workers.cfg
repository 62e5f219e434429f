CONSTANTS
  w1 = w1
  w2 = w2
  i1 = i1
  i2 = i2
  Workers = {w1, w2}
  Ids = {i1, i2}
  Requests = {r1, r2}
  Root = Root
  None = None
  Needs <- MCNeeds
  Offers <- MCOffers
  Limit <- MCLimit
  Transports = {"quic", "tcp"}
  MaxSessions = 4
  MaxOps = 4
  MaxFaults = 1
SPECIFICATION Spec
INVARIANTS
  NoLostInstance RouteLeadsHome
PROPERTIES
  WorkersComeBack RequestsEnd
CHECK_DEADLOCK FALSE
