CONSTANTS
  a1 = a1
  a2 = a2
  b1 = b1
  b2 = b2
  o1 = o1
  o2 = o2
  Buses = {b1, b2}
  Agents = {a1, a2}
  Ops = {o1, o2}
  MaxMessages = 2
  MaxFaults = 1
  Tearing = FALSE
  NoOne = NoOne
  Recipients = {a1}
  Changes <- Registrations
SYMMETRY Symmetry
SPECIFICATION Spec
INVARIANTS
  DiskComesFirst
  
PROPERTIES
  FilesNeverForget
CHECK_DEADLOCK FALSE
