SPECIFICATION Spec
CONSTANTS
  s1 = s1
  s2 = s2
  o1 = o1
  o2 = o2
  r1 = r1
  r2 = r2
  j1 = j1
  j2 = j2
  basic = basic
  plus = plus
  Subs = {s1, s2}
  Members = {s1}
  NoSub = NoSub
  Plans = {basic, plus}
  NoPlan = NoPlan
  Rank <- Tier
  Cap <- Tier
  Orders = {o1, o2}
  NoOrder = NoOrder
  Requests = {r1, r2}
  Passes = {j1, j2}
  MaxRequests = 2
  MaxFaults = 1
  MaxTime = 1
CHECK_DEADLOCK FALSE
INVARIANT OneChargePerCycle
INVARIANT ServedIsPaid
INVARIANT UsageIsExplained
INVARIANT RefundEndsIt
PROPERTY EndedStays
PROPERTY DueIsSettled
