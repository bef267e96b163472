SPECIFICATION Spec
CONSTANTS
  l1 = l1
  l2 = l2
  r1 = r1
  r2 = r2
  Lines = {l1, l2}
  Orders <- SomeOrders
  Requests = {r1, r2}
SYMMETRY Alike
CHECK_DEADLOCK FALSE
INVARIANT NeverClaimsReady
