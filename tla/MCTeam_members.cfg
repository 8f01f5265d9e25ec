CONSTANTS
  w1 = w1
  w2 = w2
  Agents = {w1, w2}
  MaxTeammates = 1
  MaxTries = 2
  MaxRuntimes = 1
  MaxMessages = 2
  MaxInputs = 1
  MaxFaults = 1
  Recipients = {w1}
  None = None
SPECIFICATION FairSpec
INVARIANTS
  TeamKnowsItsRuns
  DeliveredInOrder
PROPERTIES
  TeamMovesOn
CHECK_DEADLOCK FALSE
