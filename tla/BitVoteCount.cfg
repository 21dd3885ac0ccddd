\* Bytes of two bits: three requests make one byte or two.
SPECIFICATION Spec
CONSTANTS
  Providers = {p1, p2, p3}
  NumRequests = 3
  ReadAtFirst = 2
  ByteBits = 2
  NumberBase = 10
  Deadline = 0
  MaxBlocks = 2
  None = None
  Exit = Exit
SYMMETRY ProviderSymmetry
CHECK_DEADLOCK FALSE
INVARIANTS
  ResultsAgree
  NoExit
  ChosenAreConfirmed
  BestCandidateChosen
