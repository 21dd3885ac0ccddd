\* What the service keeps of a round for ever, and what is saved of it later.
SPECIFICATION SpecAll
CONSTANTS
  Period = 2
  VoteWindow = 0
  LastTime = 4
  Step = 2
  KeepRounds = 2
  MaxRoundWeight = 1
  Prompt = TRUE
  m1 = m1
  Members <- TheMembers
  Logs <- TheLogs
  DefinedPairs <- TheDefinitions
  GlobalSupport <- TheDefinitions
  Editions <- TheEditions
  h1 = h1
  h2 = h2
  h3 = h3
  None = None
  Parent <- TheParent
  Number <- TheNumber
  Root = "root"
  Confirmations = 2
  MaxCrashes = 1
  Null = Null
  Undefined = Undefined
  Throws = Throws
  Hashes <- TheHashes
  LastRound = 1
  LastEpoch = 3
  MaxSaves = 2
  MaxCalls = 2
  NoRound = NoRound
  Calls = {c1, c2, c3}
  Deadlines = {0, 9}
  MaxTime = 1
CHECK_DEADLOCK FALSE
INVARIANT
  CachedIsCurrent
