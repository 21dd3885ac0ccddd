SPECIFICATION FairSpec
CONSTANTS
  Confirmations = 2
  TableRange = 1
  ReadAhead = 3
  FirstHeight = 3
  MaxHeight = 6
  MaxForks = 1
  MaxCrashes = 1
  EmptyBlocks = {}
  None = None
CHECK_DEADLOCK FALSE
INVARIANTS
  OneSaveAtATime
  TablesContinuous
PROPERTIES
  ImplementsIndexedChain
  CatchesUp
