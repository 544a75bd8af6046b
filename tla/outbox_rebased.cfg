SPECIFICATION Spec
CONSTANTS
  Change = {c1, c2, c3}
  Spaced = {}
  Task = {t1}
  Publisher = {"commit", "rebase"}
  MaxInst = 1
  MaxCrash = 0
  MaxFail = 0
  MaxPasses = 0
  Compacted = {c1, c2}
  MayLogout = FALSE
  WritesFrom = "released"
  c1 = c1
  c2 = c2
  c3 = c3
  t1 = t1
PROPERTIES ImplementsDurableWrite
SYMMETRY ChangesAlike
CHECK_DEADLOCK FALSE
