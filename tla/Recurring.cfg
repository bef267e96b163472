SPECIFICATION Spec
CONSTANTS
  r1 = r1
  r2 = r2
  s1 = s1
  p1 = p1
  p2 = p2
  w1 = w1
  q1 = q1
  q2 = q2
  NoResident = NoResident
  Residents = {r1, r2}
  Schedules = {s1}
  Owner <- OwnerOf
  Offered <- Recurrences
  Allowance <- Plan
  Lapsed = {}
  LastSlot = 5
  Places <- Rooms
  Kept = {}
  Week = 2
  WindowsADay = 2
  Horizon = 2
  Offset = 1
  Passes = {p1, p2}
  Sweeps = {w1}
  Requests = {q1}
  MaxRequests = 2
  MaxFaults = 1
  MaxTime = 2
CHECK_DEADLOCK FALSE
INVARIANT NeverTwice
PROPERTY DaysAreCovered
PROPERTY OccurrenceComes
