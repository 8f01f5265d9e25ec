CONSTANTS
  r1 = r1
  n1 = n1
  Runs = {r1}
  Notes = {n1}
  MaxInputs = 3
  Limit = 2
  MaxGen = 1
  None = None
SPECIFICATION FairSpec
INVARIANTS
  InputIsUsedOnce
  QueriesAreSafe
PROPERTIES
  StopsAreHeeded
CHECK_DEADLOCK FALSE
