\* Sessions, expiry and policy changes around one capture; and two captures of two payloads.
SPECIFICATION PartsSpec
CONSTANTS
  Workers = {w1}
  Contents = {a}
  Detectable = {}
  Durations = {1}
  RamCap = 1
  HistoryLimit = 1
  Deduplicate = TRUE
  MaxClock = 2
  MaxEpoch = 3
  MaxCaptures = 2
  MaxEdits = 0
  RaceWorkers = {r1, r2}
  RaceContents = {b, c}
SYMMETRY Symmetric
INVARIANT EvictedAreAnnounced
PROPERTIES NoCaptureDuringSession NoCaptureFromExcluded OnlyCommandsEndSessions AdmitsLikeTheGate RacedRowsKept
CHECK_DEADLOCK FALSE
