SPECIFICATION Spec
CONSTANTS
  Ports = {1}
  Requests = {1, 2}
  Waits = {}
  Guests = {}
  MaxChannel = 2
  MaxGen = 1
  Chunks = 1
  QueuedChunks = 1
  MaxNotices = 0
  MidFlight = TRUE
CONSTRAINTS OneKind OneAtATime
INVARIANT StreamIsItsOwn
CHECK_DEADLOCK FALSE
