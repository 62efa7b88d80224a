\* The second cache of the same rows: no fault, no expiry, one share.
SPECIFICATION Spec
CONSTANTS
  p1 = p1
  p2 = p2
  s1 = s1
  s2 = s2
  NONE = NONE
  Processes = {p1, p2}
  Slots = {"gate", "resolver"}
  ShareRows = {s1}
  Expiring = {}
  MaxReads = 1
  MaxMishaps = 0
INVARIANT
  RecipientsFollowShares
CHECK_DEADLOCK FALSE
