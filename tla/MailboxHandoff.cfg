SPECIFICATION Spec
CONSTANTS
  Sender = Sender
  A = A
  B = B
  C = C
  M = M
  R = R
  R2 = R2
  Clients = Clients
  Agents = Agents
  Thread = Thread
  Chat = Chat
  T1 = T1
  T2 = T2
  None = None
  Endpoint <- Trio
  PartyOf <- TrioParty
  NativeOf <- TrioNative
  Party <- BothParties
  Message <- One
  Token = {}
  Agent <- ABC
  Codex <- ABC
  Tui = {}
  OpenClaw = {}
  Modes = {}
  ProbeIds = {}
  Slots = 1
  MaxRevision = 0
  Crashes = FALSE
  Steady <- JustSender
  Expiring <- One
  Reports = {"presented", "uncertain", "stale_session", "rejected", "waiting"}
  Answer = {}
INVARIANTS PresenterIsActor OwnerFollowsHandoffs RetiredWorkIsStale
SYMMETRY Incarnations
CHECK_DEADLOCK FALSE
