\* A worker and its caller through three windows; workers share nothing but time.
CONSTANTS
  Workers = {w1}
  Limit <- MCLimit
  Duration = 2
  MaxTime = 5
  None = None
SPECIFICATION Spec
INVARIANTS TypeOK RetryAfterIsEnough
PROPERTIES AtMostLimitInAWindow RemainingIsKept
