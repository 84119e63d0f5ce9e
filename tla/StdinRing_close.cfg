\* A ring of one byte, a write of two: the close comes while the put waits for room.
SPECIFICATION FairStdinSpec
CONSTANTS
  Capacity = 1
  Modulus = 2
  ChunkSizes = {2}
  ReadSizes = {1}
  MaxBytes = 2
PROPERTIES NothingAfterTheEnd
CHECK_DEADLOCK FALSE
