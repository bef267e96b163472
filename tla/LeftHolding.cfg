SPECIFICATION Spec
CONSTANTS
  x1 = x1
  x2 = x2
  t1 = t1
  t2 = t2
  o1 = o1
  o2 = o2
  r1 = r1
  r2 = r2
  Operators = {x1, x2}
  NoOne = NoOne
  Towers = {t1, t2}
  NoTower = NoTower
  Orders = {o1, o2}
  Requests = {r1}
  MaxRequests = 3
  MaxFaults = 0
SYMMETRY Alike
CHECK_DEADLOCK FALSE
INVARIANT NothingStranded
