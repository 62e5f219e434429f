CONSTANTS
  s1 = s1
  s2 = s2
  r1 = r1
  r2 = r2
  r3 = r3
  u1 = u1
  u2 = u2
  c1 = c1
  c2 = c2
  Servers = {s1, s2}
  Ids = {o1}
  None = None
  Readers = {r1, r2, r3}
  Singles = {u1, u2}
  Multis = {c1, c2}
  At <- MCAt
  Casts <- MCCasts
  MaxPartNumber = 2
  Backends = {"local", "pg"}
  MaxSessions = 2
  MaxFailures = 0
SPECIFICATION ObjectsSpec
PROPERTIES
  WaitersSeeTheObject
CHECK_DEADLOCK FALSE
