SPECIFICATION Spec
CONSTANTS
  s1 = s1
  s2 = s2
  p1 = p1
  p2 = p2
  p3 = p3
  r1 = r1
  r2 = r2
  r3 = r3
  Slots = {s1}
  Pickups = {p1, p2}
  Requests = {r1, r2}
  Societies = {"home"}
  Home = "home"
  Windows <- MCWindows
  WindowStart <- MCWindowStart
  WindowLength = 1
  Lead = 1
  CutoffHours = 1
  Offset = 2
  DayEnd = 6
  Capacity = 1
  Capacities = {1, 2}
  FirstSlots <- OneSlot
  Operations = {"book", "shut"}
  Faults = {}
  OneChange = TRUE
  MaxRequests = 3
  MaxTime = 0
CHECK_DEADLOCK FALSE
SYMMETRY Symmetry
INVARIANT NothingStranded
