SPECIFICATION EditingSpec
CONSTANTS
  a = a
  b = b
  Block = {a, b}
  Start = {a}
  None = None
  Slow = {"sibling", "select", "close", "refresh"}
  MaxStrokes = 2
  MaxWrites = 3
  MaxUpsets = 1
  Pages <- StartPages
  MaxBlocks = 4
  MaxSteps = 3
  MaxText = 1
  UndoPastDrop = FALSE
INVARIANTS TypeOK NoStrokeLost SettledPageIsSaved OneTree UndoExact
CHECK_DEADLOCK FALSE
