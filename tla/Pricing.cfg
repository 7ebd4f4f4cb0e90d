SPECIFICATION Spec
CONSTANTS
  h1 = h1
  h2 = h2
  h3 = h3
  Callers = {h1, h2, h3}
  Owner = Owner
  Stranger = Stranger
  FreshTTL = 2
  Latency = 1
  MaxRetries = 1
  MaxTime = 4
  TicksPerSecond = 2
  QuoteTTL = 1
  Faults = {"provider", "redis", "getdel", "crash"}
  MaxFaults = 1
SYMMETRY Symmetry
INVARIANTS
  TypeOK
  FallbackKeepsUp
  RedeemedSoonAfterExpiry
  QuoteLastsUntilExpiry
PROPERTIES
  RatesAreRecent
  NeverUnavailableAgain
CHECK_DEADLOCK FALSE
