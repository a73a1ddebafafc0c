\* No failures; a viewer who comes as the task ends.
SPECIFICATION LogFairSpec
CONSTANTS
  BufferMax = 2
  FaultKinds = {}
  MaxLines = 2
  MaxStarts = 1
  MaxFaults = 0
PROPERTY LogsEnd
CHECK_DEADLOCK FALSE
