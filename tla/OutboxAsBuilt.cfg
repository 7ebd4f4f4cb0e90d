SPECIFICATION Spec
CONSTANTS
  w1 = w1
  w2 = w2
  Workers = {w1, w2}
  Entries = {1, 2, 3}
  MaxRetries = 2
  Batch = 2
  SweepScheduled = FALSE
  Faults = {"crash", "db", "broker"}
  MaxFaults = 2
SYMMETRY Symmetry
INVARIANTS
  TypeOK
  OneClaimant
  SendsWithinRetries
PROPERTY ImplementsDelivery
CHECK_DEADLOCK FALSE
