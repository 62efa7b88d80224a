\* Two processes of one peer, a batch and a retry that race.
SPECIFICATION Spec
CONSTANTS
  p = p
  u1 = u1
  r1 = r1
  r2 = r2
  NULL = NULL
  MaxMishaps = 2
  Copies <- MCCopies
  Readers <- MCReaders
  Comments = {2}
  MaxTries = 2
  CacheTTL = 1
  Requests <- MCRequests
INVARIANTS
  EffectsOnce
PROPERTIES
  ProcessedStays
SYMMETRY MCSymmetry
CHECK_DEADLOCK FALSE
