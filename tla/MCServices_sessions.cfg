CONSTANTS
  Steps = {1, 2, 3}
  Concurrency = 2
  MaxTasks = 4
  MaxCancels = 2
  Monitors = {w1}
  Persistent = {}
  Names = {1, 2}
  MaxBatch = 2
  MaxLines = 2
  MaxGenerations = 3
  MaxFaults = 2
  Keys = {1, 2}
  Calls = {1, 2}
  Edits = {1}
  MaxServers = 3
SPECIFICATION Spec
INVARIANTS
  
  
  NotesAreTrue
  ServersKeepStep
PROPERTIES
  PlanEnds
  
  
CHECK_DEADLOCK FALSE
