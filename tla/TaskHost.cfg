SPECIFICATION Spec
CONSTANTS
  A = A
  B = B
  Out = Out
  T = T
  U = U
  W1 = W1
  W2 = W2
  Chat = Chat
  None = None
  Endpoint <- Pair
  NativeOf <- Natives
  Task <- Tasks
  Thread <- Threads
  Elsewhere <- Others
  Cases <- Instances
  MaxEpoch = 2
SYMMETRY Sym
INVARIANTS DetachedWasOver AcceptedIsBound MarkerCovers ReleasedIsFenced
CHECK_DEADLOCK FALSE
