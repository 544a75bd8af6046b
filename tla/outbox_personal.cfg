SPECIFICATION FairSpec
CONSTANTS
  Change = {c1}
  Spaced = {}
  Task = {t1, t2}
  Publisher = {"commit"}
  MaxInst = 1
  MaxCrash = 1
  MaxFail = 0
  MaxPasses = 1
  Compacted = {}
  MayLogout = TRUE
  WritesFrom = "any"
  c1 = c1
  t1 = t1
  t2 = t2
INVARIANTS TypeOK OneEventPerObligation LogoutKeepsWrites
PROPERTIES Drains EventuallyDelivered ImplementsDurableWrite
CHECK_DEADLOCK FALSE
