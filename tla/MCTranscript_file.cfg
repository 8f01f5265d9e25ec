CONSTANTS
  w1 = w1
  w2 = w2
  Holders = {w1, w2}
  Users = {w1}
  MaxIds = 3
  MaxLines = 4
  MaxChecks = 1
  MaxTokens = 2
  MaxFailures = 1
  None = None
SPECIFICATION TranscriptSpec
INVARIANTS
  AcknowledgedIsKeptOnce
PROPERTIES
  TranscriptGivesBack
CHECK_DEADLOCK FALSE
