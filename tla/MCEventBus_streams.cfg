CONSTANTS
  s1 = s1
  a = a
  b = b
  w1 = w1
  Sessions = {s1}
  Sources = {a, b}
  Streams = {w1}
  Capacity = 1
  MaxEvents = 2
  MaxGen = 1
  None = None
  Global = Global
SPECIFICATION FairSpec
INVARIANTS
  
  ShutdownLeavesNobody
PROPERTIES
  StreamsMoveOn
  ControlStreamHasNoGaps
CHECK_DEADLOCK FALSE
