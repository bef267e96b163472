SPECIFICATION Spec
CONSTANTS
  t1 = t1
  t2 = t2
  h1 = h1
  h2 = h2
  j1 = j1
  j2 = j2
  TopUps = {t1, t2}
  Handlers = {h1}
  Passes = {j1}
  Methods = {"upi"}
  NoTopUp = NoTopUp
  Unknown = {t2}
  MaxFaults = 0
CHECK_DEADLOCK FALSE
PROPERTY PaidIsSettled
