SPECIFICATION FairSpec
CONSTANTS
  Calls <- MCCalls
  Safe <- MCSafe
  Hooks = TRUE
  MaxTurns = 2
  MaxRetries = 1
  MaxContinues = 1
  MaxItems = 2
  MaxQueries = 2
  MaxRequests = 2
  MaxEvents = 2
INVARIANTS
  RequestsPaired
  CallsRunOnceWithLeave
PROPERTIES
  QueriesEnd
CHECK_DEADLOCK FALSE
