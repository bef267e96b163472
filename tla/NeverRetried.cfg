SPECIFICATION Spec
CONSTANTS
  EventCount = 3
  Passes = {j1, j2}
  Batch = 2
  Lease = 1
  Prompt = TRUE
  MaxCrashes = 1
CHECK_DEADLOCK FALSE
PROPERTY FailedIsRetried
