SPECIFICATION FairSpec
CONSTANTS
  a = a
  b = b
  ledger = ledger
  Object = {a, b, ledger}
  Ledger = ledger
  Doomed = {a}
  Based = {b}
  Written = {a, ledger}
  Old = old
  Theirs = theirs
  Ours = ours
  Modes = {"records", "changes"}
  Memos = {{b}, {a, ledger}}
  None = None
  Failing = {"inputs", "pending", "object", "replay", "query"}
  MaxFail = 1
  MaxImports = 1
  MaxCommits = 1
  Threads = FALSE
INVARIANTS ShownIsOwed LedgerWins CacheIsOwed
PROPERTIES Prepared
CHECK_DEADLOCK FALSE
