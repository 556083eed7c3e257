CONSTANTS
  c1 = c1
  c2 = c2
  Calls = {c1, c2}
  NumChecks = 1
SPECIFICATION FairSpec
CHECK_DEADLOCK FALSE
INVARIANTS
  SavedOnlyVerified
PROPERTIES
  SaveReturns
