\* Two offers that cross, nothing lost.
SPECIFICATION Spec
CONSTANTS
  i1 = i1
  i2 = i2
  Instances = {i1, i2}
  MaxId = 1
  MaxTasks = 2
  MaxMishaps = 0
INVARIANTS
  ConnectedHasKey
CHECK_DEADLOCK FALSE
