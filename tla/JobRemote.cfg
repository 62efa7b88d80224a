\* Clients with ids of their own, one of which does not wait for answers.
SPECIFICATION RemoteSpec
CONSTANTS
  j1 = j1
  j2 = j2
  w1 = w1
  w2 = w2
  id1 = id1
  id2 = id2
  render = render
  NULL = NULL
  Jobs = {j1, j2}
  Types = {render}
  Workers = {w1, w2}
  WorkerId <- MCOwnIds
  JobType <- MCJobType
  Priority <- MCPriority
  MaxAttempts <- MCMaxAttempts
  IdempotencyKey <- MCIdempotencyKey
  BatchLimit = 2
  Impatient = {w2}
  MaxWire = 3
INVARIANTS
  AcceptedRequestsAreCurrent
CHECK_DEADLOCK FALSE
