CONSTANTS
  a1 = a1
  a2 = a2
  s1 = s1
  s2 = s2
  Agents = {a1, a2}
  Copies = {1, 2}
  Sessions = {s1, s2}
  MaxConcurrency = 1
  MaxActive = 2
  Steered = {a1}
  MaxEpoch = 1
  MaxSwitches = 1
  Allowed = {}
  None = None
SPECIFICATION FairSpec
INVARIANTS
  TasksAreFenced
  EndsAreSettled
PROPERTIES
  ResultsSurvive
  SwitchesEnd
CHECK_DEADLOCK FALSE
