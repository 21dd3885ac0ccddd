\* No retries: every request gets its verification or is too late.  Requests come in
\* the first second, so that the limit of the last one leaves room for what waits.
SPECIFICATION FairSpec
CONSTANTS
  Attestations = {a1, a2, a3}
  None = None
  MaxProcessing = 1
  MaxPerSecond = 1
  MaxRetries = 0
  Delay = 1
  Second = 2
  Deadlines = {3, 4, 9}
  MaxArrival = 3
  MaxTime = 5
CHECK_DEADLOCK FALSE
PROPERTY EveryRequestProcessed
