\* Three rows, two of them with the same type and key, two clients.
SPECIFICATION Spec
CONSTANTS
  j1 = j1
  j2 = j2
  j3 = j3
  w1 = w1
  w2 = w2
  id1 = id1
  id2 = id2
  key = key
  preview = preview
  digest = digest
  NULL = NULL
  Jobs = {j1, j2, j3}
  Types = {preview, digest}
  Workers = {w1, w2}
  BatchLimit = 2
  WorkerId <- MCWorkerId
  JobType <- MCJobType
  Priority <- MCPriority
  MaxAttempts <- MCMaxAttempts
  IdempotencyKey <- MCIdempotencyKey
INVARIANTS
  TypeOK
  OneInFlightPerKey
  AttemptsWithinCap
  PickedRowsStayClaimable
  ClaimMatchesStatus
PROPERTIES
  DoneIsFinal
CHECK_DEADLOCK FALSE
