SPECIFICATION FairSpec
CONSTANTS
  M = M
  N = N
  W1 = W1
  Ticker = Ticker
  None = None
  Message <- Two
  Client <- Alone
  Limit = 1
  Cancelled = {}
  Reachable <- One
  MaxCrashes = 1
  MaxLate = 0
PROPERTIES PendingSettles
CHECK_DEADLOCK FALSE
