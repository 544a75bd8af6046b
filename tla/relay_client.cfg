SPECIFICATION FairSpec
CONSTANTS
  Query = {q}
  Feed = {l}
  Publish = {p1, p2}
  Neg = {n}
  old = old
  q = q
  l = l
  p1 = p1
  p2 = p2
  n = n
  Casts <- Pairs
  new = new
  Event = {old, new}
  EventOf <- OneEvent
  Held <- Stored
  None = None
  Rounds = 2
  MaxDrops = 2
  MaxRefusals = 1
  MaxTimeouts = 1
INVARIANTS TypeOK ToldTheTruth NobodyWaitsOnADeadSocket NothingLeft
PROPERTY StaysSubscribed
CHECK_DEADLOCK FALSE
