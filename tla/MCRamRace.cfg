\* A payload captured twice at once while neither capture is stored.
SPECIFICATION Spec
CONSTANTS
  Workers = {w1, w2}
  Contents = {a}
  Detectable = {}
  Durations = {}
  RamCap = 1
  HistoryLimit = 1
  Deduplicate = TRUE
  MaxClock = 0
  MaxEpoch = 0
  MaxCaptures = 3
  MaxEdits = 0
PROPERTY ProtectedRamKept
CHECK_DEADLOCK FALSE
