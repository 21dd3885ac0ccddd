\* Six windows: a vote can be as old as the ring of three allows, and three
\* rounds are finalised in a ring of two.
SPECIFICATION Spec
CONSTANTS
  Signers = {s1, s2}
  Roots = {r1}
  Zero = Zero
  None = None
  StoredProofs = 2
  FirstBuffer = 1
  LastBuffer = 6
  MaxPending = 1
SYMMETRY SignerSymmetry
CHECK_DEADLOCK FALSE
INVARIANTS
  RecentRootsReadable
  StaleOnlyAfterGap
PROPERTIES
  FinalisedOnce
  FinalisedByMajority
