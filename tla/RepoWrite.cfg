SPECIFICATION Spec
CONSTANTS
  X = X
  Y = Y
  W1 = W1
  W2 = W2
  Ann = Ann
  Bob = Bob
  Absent = Absent
  None = None
  Content <- Texts
  Files = 2
  Patch <- Patches
  Thread <- Threads
  MaxRequests = 3
  MaxEdits = 1
  MaxKills = 1
SYMMETRY Sym
INVARIANTS ReadableIsOurs
PROPERTIES OwnersTextKept AllOrNothing RecordedNotReapplied RevertExact
CHECK_DEADLOCK FALSE
