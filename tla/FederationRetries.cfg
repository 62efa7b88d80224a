\* One comment for two users of a peer, delivered by one worker that fails twice.
SPECIFICATION Spec
CONSTANTS
  o = o
  p = p
  u1 = u1
  u2 = u2
  d1 = d1
  w1 = w1
  NULL = NULL
  Activities = {1}
  Rows <- MCComment
  Peers = {p}
  ObjectOf <- MCObjectOf
  Dispatchers = {d1}
  Workers = {w1}
  Visibility <- MCVisibility
  Sensitive = {}
  Sealable = {}
  MaxAttempts = 2
  Backoff = 1
  MaxCalls = 2
  MaxMishaps = 2
  Copies <- MCCopy
  Readers <- MCReader
  Comments = {1}
  MaxTries = 2
  CacheTTL = 1
INVARIANTS
  AttemptsBounded
CHECK_DEADLOCK FALSE
