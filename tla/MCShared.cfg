\* A deletion of one of two rows with the same image.
SPECIFICATION FilesSpec
CONSTANTS
  Workers = {gui}
  Home <- OneProcess
  Ids = {1, 2}
  Images = {f}
  Limit = 1
  MaxOps = 1
  MaxFaults = 0
PROPERTY SharedIsKept
CHECK_DEADLOCK FALSE
