SPECIFICATION Spec
CONSTANTS
  Sender = Sender
  A = A
  B = B
  C = C
  M = M
  R = R
  R2 = R2
  Clients = Clients
  Agents = Agents
  Thread = Thread
  Chat = Chat
  T1 = T1
  T2 = T2
  None = None
  Endpoint <- Solo
  PartyOf <- SoloParty
  NativeOf <- SoloNative
  Party <- BothParties
  Message <- Three
  Token <- Tokens
  Agent = {}
  Codex = {}
  Tui = {}
  OpenClaw = {}
  Modes = {}
  ProbeIds = {}
  Slots = 1
  MaxRevision = 0
  Crashes = FALSE
  Steady <- SenderAndA
  Expiring = {}
  Reports = {"presented"}
  Answer <- Replies
INVARIANTS FinishedIsSilent
PROPERTIES PreparedReplyWins
SYMMETRY Claims
CHECK_DEADLOCK FALSE
