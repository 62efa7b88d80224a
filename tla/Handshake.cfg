\* Two instances, each of which may insert a row three times.
SPECIFICATION FairSpec
CONSTANTS
  i1 = i1
  i2 = i2
  Instances = {i1, i2}
  MaxId = 3
  MaxTasks = 4
  MaxMishaps = 3
INVARIANTS
  TypeOK
  ConnectedByIntent
  PlaceholderOnlyIfCrossed
  NegotiatedUnlessCut
PROPERTIES
  OneSidedOfferPairs
CHECK_DEADLOCK FALSE
