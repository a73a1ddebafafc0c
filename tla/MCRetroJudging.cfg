SPECIFICATION RetroSpec
CONSTANTS
  History <- SomeHistory
  Nobody = nobody
  Sample = 3
INVARIANT EachJudgedIsRecorded
CHECK_DEADLOCK FALSE
