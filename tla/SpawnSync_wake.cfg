CONSTANTS
  MaxCalls = 1
  MaxParts = 2
  Inputs = {0}
  Outputs = {1}
  Room = 1
  ReadBytes = 1
  InputBytes = 1
  MaxBuffer = 1
SPECIFICATION SpawnSpec
INVARIANT GivesUpInTime
CHECK_DEADLOCK FALSE
