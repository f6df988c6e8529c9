\* Two Hosts, one after the other or at once; export grants against epoch changes and a window
\* of one event; two watchers beside the router and one change of each kind; files of two rows.
SPECIFICATION PartsSpec
CONSTANTS
  Hosts = {h1, h2}
  Embedded = {}
  Slots = {s1, s2}
  MaxWork = 1
  QueueCap = 1
  QueuedBytes = 1
  Weights = {1}
  Publishers = {}
  Router = router
  Remote = remoteDesktop
  Exports = {x}
  Window = 1
  MaxEpoch = 1
  MaxHistory = 1
  MaxMoves = 2
  MaxEvents = 0
  Watchers = {s1, s2}
  Holder = holder
  SafeLimit = 2
  MaxDatabase = 1
  MaxQueue = 1
  EpochBound = 1
  MaxReads = 2
  MaxRequests = 2
  Workers = {"gui", "capture", "cli"}
  Home <- TwoProcesses
  Ids = {s1, s2}
  Images = {"f"}
  Limit = 1
  MaxOps = 2
  MaxFaults = 1
SYMMETRY Symmetric
INVARIANTS OneCapturer RevokedBeforeAck PrivacyViewFollows TokenNamesOneHistory AnswerIsOfItsToken
PROPERTIES NoEventSkipped CleanupSparesRows ProtectedLeavesNoFile
CHECK_DEADLOCK FALSE
