\* The reaper, batches that may be full.
SPECIFICATION Spec
CONSTANTS
  w1 = w1
  w2 = w2
  id1 = id1
  id2 = id2
  NULL = NULL
  Workers = {w1}
  WorkerId <- MCWorkerId
  MaxAttempts = 2
  NextTick <- MCFullBatch
  LogsEnqueueErrors = FALSE
  Copies = 1
  MaxTime = 3
  MaxBoots = 1
INVARIANTS
  ChainSurvives
CHECK_DEADLOCK FALSE
