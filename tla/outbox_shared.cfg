SPECIFICATION Spec
CONSTANTS
  Change = {c1}
  Spaced = {c1}
  Task = {t1, t2}
  Publisher = {"commit", "sweep"}
  MaxInst = 1
  MaxCrash = 0
  MaxFail = 0
  MaxPasses = 0
  Compacted = {c1}
  MayLogout = FALSE
  WritesFrom = "released"
  c1 = c1
  t1 = t1
  t2 = t2
INVARIANTS OneQueueTask NoStrandedOffer PublishedIsHeld
SYMMETRY TasksAlike
CONSTRAINT CompactedAfterCommit
CHECK_DEADLOCK FALSE
