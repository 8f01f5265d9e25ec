CONSTANTS
  m1 = m1
  m2 = m2
  m3 = m3
  once = once
  cron = cron
  Managers = {m1, m2}
  Jobs = {cron, once}
  Recurring = {cron}
  MaxRuns = 2
  MaxConcurrent = 1
  Allowed = {}
  MaxOcc = 2
  MaxDisturb = 2
  None = None
SPECIFICATION FairSpec
INVARIANTS
  OneExecutionPerOccurrence
  LimitsRespected
PROPERTIES
  RecordsAreTrue
  DueJobsRun
CHECK_DEADLOCK FALSE
