SPECIFICATION Spec
CONSTANTS
  o1 = o1
  o2 = o2
  d1 = d1
  d2 = d2
  Orders = {o1, o2}
  Drains = {d1}
  LastStep <- StepsOf
  MaxActions = 2
  MaxTries = 3
  MaxFaults = 1
CHECK_DEADLOCK FALSE
PROPERTY QueueEmpties
