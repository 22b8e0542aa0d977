SPECIFICATION Spec
CONSTANTS
  Sender = Sender
  A = A
  B = B
  C = C
  M = M
  R = R
  R2 = R2
  Clients = Clients
  Agents = Agents
  Thread = Thread
  Chat = Chat
  T1 = T1
  T2 = T2
  None = None
  Endpoint <- Trio
  PartyOf <- TrioParty
  NativeOf <- TrioNative
  Party <- BothParties
  Message <- Two
  Token = {}
  Agent <- ABC
  Codex <- ABC
  Tui = {A, B}
  OpenClaw = {}
  Modes = {}
  ProbeIds = {}
  Slots = 1
  MaxRevision = 1
  Crashes = FALSE
  Steady <- SenderAndC
  Expiring = {}
  Reports = {"presented"}
  Answer <- OneReply
PROPERTIES OtherSurfacesFenced NothingBegunAfterReply
SYMMETRY Surfaces
CHECK_DEADLOCK FALSE
