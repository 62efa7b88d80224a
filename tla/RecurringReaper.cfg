\* The five minute reaper and a second boot.
SPECIFICATION Spec
CONSTANTS
  w1 = w1
  w2 = w2
  id1 = id1
  id2 = id2
  NULL = NULL
  Workers = {w1, w2}
  WorkerId <- MCWorkerId
  MaxAttempts = 2
  NextTick <- MCInterval
  LogsEnqueueErrors = FALSE
  Copies = 1
  MaxTime = 4
  MaxBoots = 2
INVARIANTS
  OneFutureTick
CHECK_DEADLOCK FALSE
