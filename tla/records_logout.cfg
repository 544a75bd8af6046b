SPECIFICATION Spec
CONSTANTS
  Device = {d1, d2}
  Object = {o1}
  MaxIndex = 2
  Index <- TwoAccounts
  Parts = 1
  PageSize = 1
  MaxTime = 2
  MaxWrites = 2
  MaxVanishes = 0
  MaxPacks = 0
  MaxCuts = 0
  CutsDuringSync = FALSE
  MaxFail = 0
  MaxCrash = 0
  MaxLogout = 1
  MaxUpsets = 1
  d1 = d1
  d2 = d2
  o1 = o1
INVARIANTS WritesKept
CHECK_DEADLOCK FALSE
