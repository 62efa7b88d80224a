\* The digest: a re-enqueue that fails is logged and the tick succeeds.
SPECIFICATION Spec
CONSTANTS
  w1 = w1
  w2 = w2
  id1 = id1
  id2 = id2
  NULL = NULL
  Workers = {w1}
  WorkerId <- MCWorkerId
  MaxAttempts = 2
  NextTick <- MCWakeHour
  LogsEnqueueErrors = TRUE
  Copies = 2
  MaxTime = 4
  MaxBoots = 1
INVARIANTS
  ChainSurvives
CHECK_DEADLOCK FALSE
