SPECIFICATION Spec
CONSTANTS
  Ports = {1}
  Requests = {1}
  Waits = {}
  Guests = {}
  MaxChannel = 2
  MaxGen = 1
  Chunks = 1
  QueuedChunks = 1
  MaxNotices = 1
  MidFlight = FALSE
INVARIANT PrimaryIsTold
CHECK_DEADLOCK FALSE
