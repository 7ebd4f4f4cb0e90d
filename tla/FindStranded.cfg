SPECIFICATION FairSpec
CONSTANTS
  w1 = w1
  w2 = w2
  Workers = {w1, w2}
  Entries = {1}
  MaxRetries = 2
  Batch = 1
  SweepScheduled = FALSE
  Faults = {"crash"}
  MaxFaults = 1
PROPERTY AbandonedIsReclaimed
CHECK_DEADLOCK FALSE
