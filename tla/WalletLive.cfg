SPECIFICATION FairSpec
CONSTANTS
  u1 = u1
  u2 = u2
  u3 = u3
  A = A
  B = B
  k1 = k1
  k2 = k2
  q1 = q1
  q2 = q2
  p1 = p1
  p2 = p2
  p3 = p3
  None = None
  House = House
  Users = {u1, u2, u3}
  Currencies = {A, B}
  Keys = {k1, k2}
  Opening <- MCOpening
  QuoteBook <- LiveQuoteBook
  Converted <- MCConverted
  Procs = {p1, p2}
  Requests <- LiveRequests
  Faults = {"crash", "db", "redis", "getdel", "fx", "slow"}
  Instance <- Together
  PoolMax = 2
PROPERTIES
  EveryRequestAnswered
CHECK_DEADLOCK FALSE
