\* Two machines of one account that claim without a worker_id.
SPECIFICATION RemoteSpec
CONSTANTS
  j1 = j1
  j2 = j2
  w1 = w1
  w2 = w2
  id1 = id1
  id2 = id2
  render = render
  NULL = NULL
  Jobs = {j1, j2}
  Types = {render}
  Workers = {w1, w2}
  WorkerId <- MCAccountId
  JobType <- MCJobType
  Priority <- MCPriority
  MaxAttempts <- MCMaxAttempts
  IdempotencyKey <- MCIdempotencyKey
  BatchLimit = 2
  Impatient = {}
  MaxWire = 2
INVARIANTS
  StolenLeaseIsNoticed
CHECK_DEADLOCK FALSE
