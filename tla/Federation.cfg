\* One peer, two of its processes, one worker and one dispatcher here.
SPECIFICATION FairSpec
CONSTANTS
  o = o
  p = p
  u1 = u1
  u2 = u2
  d1 = d1
  w1 = w1
  NULL = NULL
  Activities = {1, 2}
  Rows <- MCRows
  Peers = {p}
  ObjectOf <- MCObjectOf
  Dispatchers = {d1}
  Workers = {w1}
  Visibility <- MCVisibility
  Sensitive = {2}
  Sealable = {}
  MaxAttempts = 2
  Backoff = 1
  MaxCalls = 2
  MaxMishaps = 1
  Copies <- MCCopies
  Readers <- MCReader
  Comments = {1}
  MaxTries = 2
  CacheTTL = 1
INVARIANTS
  TypeOK
  CursorMissesOnlyOvertaken
  SentWasReceived
PROPERTIES
  SettledRowsStay
  RowsSettle
CHECK_DEADLOCK FALSE
