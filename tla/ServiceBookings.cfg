SPECIFICATION Spec
CONSTANTS
  b1 = b1
  b2 = b2
  b3 = b3
  x1 = x1
  x2 = x2
  w1 = w1
  w2 = w2
  d1 = d1
  d2 = d2
  r1 = r1
  r2 = r2
  Bookings = {b1, b2, b3}
  Slots = {d1, d2}
  NoSlot = NoSlot
  NoBooking = NoBooking
  Windows = {w1, w2}
  NoWindow = NoWindow
  Operators = {x1, x2}
  NoOne = NoOne
  Requests = {r1, r2}
  Capacity = 1
  Seats = 1
  MaxRequests = 6
  MaxFaults = 1
SYMMETRY Alike
CHECK_DEADLOCK FALSE
INVARIANT WindowNotOverbooked
INVARIANT NobodyInTwoPlaces
INVARIANT SeatsSoldOnce
