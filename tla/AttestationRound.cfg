SPECIFICATION Spec
CONSTANTS
  LastRound = 2
  NumRequests = 2
  None = None
  Prompt = TRUE
  ChainInStep = TRUE
  MaxRestarts = 1
CONSTRAINT FewRequests
INVARIANTS
  RevealMatchesCommit
  AbstentionNeverCounts
  WholeVoteOrNothing
  CountWaitsOnlyForVerification
  OnlyVerifiedSubmitted
CHECK_DEADLOCK FALSE
