SPECIFICATION Spec
CONSTANTS
  s1 = s1
  s2 = s2
  p1 = p1
  p2 = p2
  p3 = p3
  r1 = r1
  r2 = r2
  r3 = r3
  Slots = {s1, s2}
  Pickups = {p1, p2}
  Requests = {r1, r2}
  Societies = {"home", "other"}
  Home = "home"
  Windows <- MCWindows
  WindowStart <- MCWindowStart
  WindowLength = 1
  Lead = 1
  CutoffHours = 1
  Offset = 2
  DayEnd = 6
  Capacity = 1
  Capacities = {1}
  FirstSlots <- NoSlots
  Operations = {"book", "create", "shut"}
  Faults = {"book"}
  OneChange = TRUE
  MaxRequests = 4
  MaxTime = 2
CHECK_DEADLOCK FALSE
INVARIANT NeverOversold
INVARIANT OneSlotPerWindow
PROPERTY EveryRequestEnds
