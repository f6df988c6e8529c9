\* Two presses and a GPU switch around one teardown; nothing is refused.
SPECIFICATION WindowSpec
CONSTANTS
  MaxActs = 2
  MaxSwitches = 1
  MaxHides = 1
  MaxFaults = 0
INVARIANT ClosedIsGone
CHECK_DEADLOCK FALSE
