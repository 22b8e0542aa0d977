SPECIFICATION Spec
CONSTANTS
  M = M
  N = N
  W1 = W1
  Ticker = Ticker
  None = None
  Message <- One
  Client <- Alone
  Limit = 1
  Cancelled <- One
  Reachable <- One
  MaxCrashes = 1
  MaxLate = 1
INVARIANTS CancelAnswersTrue AcceptanceTrue
PROPERTIES EndToEndKept
CHECK_DEADLOCK FALSE
