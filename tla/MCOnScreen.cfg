\* The user presses once after the window became due; nothing is switched or refused.
SPECIFICATION WindowSpec
CONSTANTS
  MaxActs = 2
  MaxSwitches = 0
  MaxHides = 1
  MaxFaults = 0
PROPERTY OnScreenIsKept
CHECK_DEADLOCK FALSE
