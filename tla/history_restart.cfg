SPECIFICATION FairSpec
CONSTANTS
  Event = {e2, e3, e4}
  Old = {e2, e3, e4}
  At <- MCAt
  LastSecond = 3
  Relay = {r2}
  Reconciling = {r2}
  PageLimit = 2
  MaxCrash = 1
  MaxFail = 0
  MaxDown = 2
  e1 = e1
  e2 = e2
  e3 = e3
  e4 = e4
  r2 = r2
INVARIANTS FullWalkHolds
PROPERTIES Bootstraps
CHECK_DEADLOCK FALSE
