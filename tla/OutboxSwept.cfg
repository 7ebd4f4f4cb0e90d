SPECIFICATION FairSpec
CONSTANTS
  w1 = w1
  w2 = w2
  Workers = {w1, w2}
  Entries = {1, 2}
  MaxRetries = 2
  Batch = 1
  SweepScheduled = TRUE
  Faults = {"crash", "db", "broker", "slow"}
  MaxFaults = 2
INVARIANT PublishedWasSent
PROPERTY EverySettles
CHECK_DEADLOCK FALSE
