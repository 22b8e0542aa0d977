SPECIFICATION Spec
CONSTANTS
  Sender = Sender
  A = A
  B = B
  C = C
  M = M
  R = R
  R2 = R2
  Clients = Clients
  Agents = Agents
  Thread = Thread
  Chat = Chat
  T1 = T1
  T2 = T2
  None = None
  Endpoint <- Solo
  PartyOf <- SoloParty
  NativeOf <- SoloNative
  Party <- BothParties
  Message <- One
  Token = {}
  Agent <- JustA
  Codex <- JustA
  Tui = {}
  OpenClaw = {}
  Modes = {"open", "stopped", "probe"}
  ProbeIds = {M}
  Slots = 2
  MaxRevision = 0
  Crashes = TRUE
  Steady = {}
  Expiring <- One
  Reports = {"presented", "uncertain", "stale_session", "rejected", "waiting"}
  Answer = {}
PROPERTIES PromiseKept
CHECK_DEADLOCK FALSE
