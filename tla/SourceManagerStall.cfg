\* Two retries that are not due at the same time.
SPECIFICATION Spec
CONSTANTS
  Attestations = {a1, a2}
  None = None
  MaxProcessing = 2
  MaxPerSecond = 2
  MaxRetries = 1
  Delay = 1
  Second = 2
  Deadlines = {9}
  MaxArrival = 5
  MaxTime = 5
CHECK_DEADLOCK FALSE
INVARIANT DelayedHasWakeUp
