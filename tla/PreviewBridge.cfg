\* Two ports, registered and primary in any order; or two requests to one of them, in two
\* lives of the worker, with whatever the first leaves behind.
SPECIFICATION Spec
CONSTANTS
  Ports = {1, 2}
  Requests = {1, 2}
  Waits = {1}
  Guests = {1}
  MaxChannel = 2
  MaxGen = 2
  Chunks = 2
  QueuedChunks = 1
  MaxNotices = 2
  MidFlight = TRUE
CONSTRAINTS OneKind OneAtATime LateOnce
INVARIANTS BodyIsWhole AnsweredByItsServer RegistrationsAgree
PROPERTY MappingIsTrue
CHECK_DEADLOCK FALSE
