\* Graceful shutdown only.
SPECIFICATION Spec
CONSTANTS
  j1 = j1
  j2 = j2
  w1 = w1
  w2 = w2
  video = video
  text = text
  NULL = NULL
  Jobs = {j1, j2}
  Types = {video, text}
  Workers = {w1, w2}
  WorkerId <- MCWorkerId
  JobType <- MCFreeType
  Priority <- MCPriority
  MaxAttempts <- MCMaxAttempts
  IdempotencyKey <- MCIdempotencyKey
  BatchLimit = 1
  Registered = {video, text}
  PoolTypes = {}
  TypeConcurrency <- MCTypeConcurrency
  Faults = {"shutdown"}
PROPERTIES
  ShutdownReportsFailure
CHECK_DEADLOCK FALSE
