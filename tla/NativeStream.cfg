\* Two writes of one or two chunks, with room for one; the reader stops once.
SPECIFICATION FairStreamSpec
CONSTANTS
  Sizes = {1, 2}
  MaxQueued = 1
  MaxWrites = 2
  MaxStops = 1
INVARIANTS AnswersAreTrue DescriptorsAccounted
PROPERTIES StreamMoves
CHECK_DEADLOCK FALSE
