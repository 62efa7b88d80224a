CONSTANTS
  r1 = r1
  r2 = r2
  p1 = p1
  p2 = p2
  Nobody = Nobody
  Actions = {1, 2, 3}
  Author = {2, 3}
  Publishes = {2, 3}
  Reapers = {r1, r2}
  People = {p1, p2}
  MaxMoves = 2
  MaxMishaps = 1
SPECIFICATION Spec
INVARIANTS RestoreIsFederated
CHECK_DEADLOCK FALSE
