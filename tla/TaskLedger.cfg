SPECIFICATION Spec
CONSTANTS
  A = A
  B = B
  C = C
  T1 = T1
  Thread = Thread
  Chat = Chat
  None = None
  Endpoint <- Three
  NativeOf <- ThreeNatives
  Owners <- JustC
  Retiring <- JustA
  Tool <- OneTool
  MaxEpoch = 2
INVARIANTS DoneByExecutor FormerExecutorDetaches
PROPERTIES FenceKept HandoffConsented
CHECK_DEADLOCK FALSE
