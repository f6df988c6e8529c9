\* One update of an embedded Host; nothing happens in the world around.
SPECIFICATION BridgeSpec
CONSTANTS
  MaxUpdates = 1
  MaxOps = 0
PROPERTY RestoredIsKept
CHECK_DEADLOCK FALSE
