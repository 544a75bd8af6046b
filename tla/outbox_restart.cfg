SPECIFICATION Spec
CONSTANTS
  Change = {c1}
  Spaced = {}
  Task = {t1, t2}
  Publisher = {"commit"}
  MaxInst = 2
  MaxCrash = 0
  MaxFail = 1
  MaxPasses = 0
  Compacted = {}
  MayLogout = FALSE
  WritesFrom = "released"
  c1 = c1
  t1 = t1
  t2 = t2
INVARIANTS ObligationStored
SYMMETRY TasksAlike
CHECK_DEADLOCK FALSE
