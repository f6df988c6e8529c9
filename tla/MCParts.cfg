\* Each component alone, one after another.
SPECIFICATION PartsSpec
CONSTANTS
  Requests = {"r1", "r2"}
  MaxRevision = 2
  MaxSessions = 2
  Switches <- OneSwitch
  MaxPending = 1
  MaxOps = 2
  MaxEdits = 1
  MaxFaults = 1
  Ids = {1, 2}
  MaxItems = 2
  MaxSteps = 2
  MaxMoves = 2
  Chords = {"a", "b"}
  MaxRegs = 2
  MaxCalls = 3
  MaxPresses = 0
  Texts = {"", "a"}
  Finds <- FindsOdd
  First <- Newest
  PageSize = 1
  MaxEntries = 2
  MaxTurns = 3
INVARIANTS UserValueKept OneChild RowsAreOfOneRead ClearedIsNotPasted LiveIsStored
PROPERTIES GivesBack PastesOnceHidden PastesWhatIsSeen ConsumesItsOwn
CHECK_DEADLOCK FALSE
