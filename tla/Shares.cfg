\* Two processes over one share that expires, with two faults.
SPECIFICATION FairSpec
CONSTANTS
  p1 = p1
  p2 = p2
  s1 = s1
  s2 = s2
  NONE = NONE
  Processes = {p1, p2}
  Slots = {"gate"}
  ShareRows = {s1}
  Expiring = {s1}
  MaxReads = 2
  MaxMishaps = 2
INVARIANTS
  SnapshotIsCurrent
  OneUnsharePerRevoke
PROPERTIES
  ExpiredIsRevoked
CHECK_DEADLOCK FALSE
