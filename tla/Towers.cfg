SPECIFICATION Spec
CONSTANTS
  x1 = x1
  x2 = x2
  t1 = t1
  t2 = t2
  o1 = o1
  o2 = o2
  r1 = r1
  r2 = r2
  Operators = {x1, x2}
  NoOne = NoOne
  Towers = {t1, t2}
  NoTower = NoTower
  Orders = {o1}
  Requests = {r1, r2}
  MaxRequests = 2
  MaxFaults = 1
SYMMETRY AllAlike
CHECK_DEADLOCK FALSE
INVARIANT BothSidesAgree
INVARIANT FollowsItsTower
INVARIANT BlockedHoldNothing
PROPERTY RecordsStay
