\* One row of a type capped at 1, one of an uncapped type, every fault.
SPECIFICATION Spec
CONSTANTS
  j1 = j1
  j2 = j2
  w1 = w1
  w2 = w2
  video = video
  text = text
  NULL = NULL
  Jobs = {j1, j2}
  Types = {video, text}
  Workers = {w1, w2}
  WorkerId <- MCWorkerId
  JobType <- MCMixedType
  Priority <- MCPriority
  MaxAttempts <- MCTwoAttempts
  IdempotencyKey <- MCIdempotencyKey
  BatchLimit = 1
  Registered = {video, text}
  PoolTypes = {}
  TypeConcurrency <- MCTypeConcurrency
  Faults = {"dberror", "shutdown", "crash", "admin"}
SYMMETRY MCSymmetry
INVARIANTS
  TypeOK
  OwnerHoldsLatestClaim
  StartsWithinCap
  HandlersWithinCap
PROPERTIES
  ImplementsLeasedWork
  ReportsOnlyByHolder
CHECK_DEADLOCK FALSE
