SPECIFICATION FairSpec
CONSTANTS
  M = M
  N = N
  Message <- One
  MaxLate = 1
  MaxKills = 1
INVARIANTS CancelledStaysOut SubmittedOnce PresentedWasRead
PROPERTIES PastedAsPromised PendingEnds UncertainIsTold
CHECK_DEADLOCK FALSE
