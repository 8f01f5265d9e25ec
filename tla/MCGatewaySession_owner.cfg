CONSTANTS
  o1 = o1
  o2 = o2
  o3 = o3
  t1 = t1
  t2 = t2
  t3 = t3
  x1 = x1
  x2 = x2
  i1 = i1
  i2 = i2
  Objects = {o1, o2}
  Tasks = {t1, t2}
  Ops = {x1}
  Interrupters = {i1}
  Allowed = {"owner"}
  Nothing = Nothing
SPECIFICATION SessionSpec
SYMMETRY Symmetry
INVARIANTS
  TurnsComplete
CHECK_DEADLOCK FALSE
