SPECIFICATION Spec
CONSTANTS
  Event = {e1, e2}
  Old = {e2}
  At <- MCAt
  LastSecond = 2
  Relay = {r1, r2}
  Reconciling = {r2}
  PageLimit = 2
  MaxCrash = 0
  MaxFail = 1
  MaxDown = 0
  e1 = e1
  e2 = e2
  e3 = e3
  e4 = e4
  r1 = r1
  r2 = r2
INVARIANTS TypeOK CompletePassHolds FaultsKept FaultPersisted
CHECK_DEADLOCK FALSE
