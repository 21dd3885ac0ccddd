CONSTANTS
  None = None
  Throws = Throws
  Text = Text
  Chains <- MCChains
  Orphans <- MCOrphans
  Sources = {"BTC", "LTC", "DOGE", "XRP", "ALGO"}
  Requests <- MCRequests
  SupportedTypes = {"Payment", "BalanceDecreasingTransaction", "ConfirmedBlockHeightExists", "ReferencedPaymentNonexistence"}
  FirstSaved <- MCFirstSaved
  FirstN <- MCFirstN
  FirstTable <- MCFirstTable
  KeepBlocks = 2
  Confirmations = 6
  OverflowOffset = 1
  QueryWindow = 1
SPECIFICATION Spec
INVARIANTS
  AnswerIsTrue
  PreparedIsConfirmed
  ValidWasPrepared
  RoundTrip
  PagesAreComplete
  EngineAgrees
CHECK_DEADLOCK FALSE
