SPECIFICATION FairSpec
CONSTANTS
  Device = {d1, d2}
  Object = {o1}
  MaxIndex = 2
  Index <- OneAccount
  Parts = 1
  PageSize = 1
  MaxTime = 1
  MaxWrites = 2
  MaxVanishes = 1
  MaxPacks = 0
  MaxCuts = 0
  CutsDuringSync = FALSE
  MaxFail = 0
  MaxCrash = 1
  MaxLogout = 1
  MaxUpsets = 1
  d1 = d1
  d2 = d2
  o1 = o1
INVARIANTS VanishReaches
PROPERTIES Drains GoesLive
CHECK_DEADLOCK FALSE
