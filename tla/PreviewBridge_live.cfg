SPECIFICATION Spec
CONSTANTS
  Ports = {1}
  Requests = {1}
  Waits = {}
  Guests = {}
  MaxChannel = 3
  MaxGen = 2
  Chunks = 2
  QueuedChunks = 1
  MaxNotices = 0
  MidFlight = FALSE
CONSTRAINT OneKind
INVARIANT TypeOK
PROPERTIES EveryRequestSettles StreamsReleased
CHECK_DEADLOCK FALSE
