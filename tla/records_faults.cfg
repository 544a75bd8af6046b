SPECIFICATION Spec
CONSTANTS
  Device = {d1, d2}
  Object = {o1}
  MaxIndex = 2
  Index <- OneAccount
  Parts = 1
  PageSize = 1
  MaxTime = 2
  MaxWrites = 2
  MaxVanishes = 0
  MaxPacks = 1
  MaxCuts = 1
  CutsDuringSync = FALSE
  MaxFail = 1
  MaxCrash = 1
  MaxLogout = 0
  MaxUpsets = 1
  d1 = d1
  d2 = d2
  o1 = o1
INVARIANTS TypeOK CursorCovers Converged ClockCovers WritesKept
PROPERTIES ImplementsLastWriter
SYMMETRY Alike
CHECK_DEADLOCK FALSE
