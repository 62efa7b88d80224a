\* Liveness: database errors and crashes, no operator; a type without a handler.
SPECIFICATION FairSpec
CONSTANTS
  j1 = j1
  j2 = j2
  w1 = w1
  w2 = w2
  video = video
  text = text
  NULL = NULL
  Jobs = {j1, j2}
  Types = {video, text}
  Workers = {w1, w2}
  WorkerId <- MCWorkerId
  JobType <- MCMixedType
  Priority <- MCPriority
  MaxAttempts <- MCMaxAttempts
  IdempotencyKey <- MCIdempotencyKey
  BatchLimit = 1
  Registered = {video}
  PoolTypes = {video, text}
  TypeConcurrency <- MCTypeConcurrency
  Faults = {"dberror", "crash"}
PROPERTIES
  RunningRowsSettle
  ClaimableRowsAreClaimed
CHECK_DEADLOCK FALSE
