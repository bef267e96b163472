SPECIFICATION Spec
CONSTANTS
  o1 = o1
  o2 = o2
  q1 = q1
  q2 = q2
  r1 = r1
  r2 = r2
  Orders = {o1, o2}
  Refunds = {q1, q2}
  NoOrder = NoOrder
  NoRefund = NoRefund
  Requests = {r1, r2}
  MaxRequests = 6
  MaxFaults = 1
  MaxBalance = 2
SYMMETRY Alike
CHECK_DEADLOCK FALSE
INVARIANT OverdraftIsBounded
INVARIANT NothingUnearned
INVARIANT RepeatsAreMishaps
INVARIANT BooksAgree
