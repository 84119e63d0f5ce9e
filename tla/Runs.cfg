\* A program of four steps with one handle and one microtask at a time; two calls of up
\* to two parts a message, or a child with one input and two outputs.
SPECIFICATION RunsSpec
CONSTANTS
  Statuses = {0, 3}
  MaxWork = 1
  MaxMicro = 1
  Fuel = 4
  MaxStack = 4
  MaxCalls = 2
  MaxParts = 2
  Inputs = {0}
  Outputs = {1, 2}
  Room = 1
  ReadBytes = 1
  InputBytes = 2
  MaxBuffer = 1
INVARIANTS FatalIsNotSuccess MessagesWhole OutputIsWhole CutIsReported
PROPERTIES EndCutsNothing EveryRunReturns EveryCallReturns
\* The program may end.
CHECK_DEADLOCK FALSE
