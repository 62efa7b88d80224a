\* The nightly jobs, two boots, two workers.
SPECIFICATION Spec
CONSTANTS
  w1 = w1
  w2 = w2
  id1 = id1
  id2 = id2
  NULL = NULL
  Workers = {w1, w2}
  WorkerId <- MCWorkerId
  MaxAttempts = 2
  NextTick <- MCWakeHour
  LogsEnqueueErrors = FALSE
  Copies = 2
  MaxTime = 4
  MaxBoots = 2
INVARIANTS
  ChainSurvives
  OneFutureTick
CHECK_DEADLOCK FALSE
