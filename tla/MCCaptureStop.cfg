\* One Host, one token at a time, and a stop: with no help, with the platform, with retries.
SPECIFICATION ThreadSpec
CONSTANTS
  Hosts = {h1}
  Embedded = {h1}
  Slots = {s1, s2}
  MaxWork = 1
  QueueCap = 1
  QueuedBytes = 2
  Weights = {1}
INVARIANTS BytesAccounted StoppedIsQuiet
PROPERTIES StopReturns LeaseAndStopEnd
CHECK_DEADLOCK FALSE
