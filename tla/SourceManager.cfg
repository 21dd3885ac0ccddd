\* Retries with both limits: a second is two ticks, a retry waits for one.
SPECIFICATION Spec
CONSTANTS
  Attestations = {a1, a2, a3}
  None = None
  MaxProcessing = 2
  MaxPerSecond = 1
  MaxRetries = 1
  Delay = 1
  Second = 2
  Deadlines = {4}
  MaxArrival = 6
  MaxTime = 6
SYMMETRY AttestationSymmetry
CHECK_DEADLOCK FALSE
INVARIANTS
  InOnePlace
  QueueHasWakeUp
PROPERTY LimitsExceededOnlyByRetries
