SPECIFICATION Spec
CONSTANTS
  LastRound = 1
  NumRequests = 2
  None = None
  Prompt = FALSE
  ChainInStep = TRUE
  MaxRestarts = 0
CONSTRAINT LastRoundEmpty
INVARIANTS
  RevealMatchesCommit
CHECK_DEADLOCK FALSE
