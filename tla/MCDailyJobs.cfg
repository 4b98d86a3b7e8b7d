SPECIFICATION FairJobs
CONSTANTS
  Debts = {d1}
  Workers = {w1, w2}
  MaxRetries = 1
  MaxQueue = 1
  MaxTroubles = 2
INVARIANTS JobsTypeOK PenalisedOnce
PROPERTIES RemindedOnceByProcess PenaltiesCatchUp
CHECK_DEADLOCK FALSE
