\* Two ticks and a stack of two; four requests for two names, one of them stealing.
SPECIFICATION RealmSpec
CONSTANTS
  MaxTicks = 2
  MaxStack = 2
  MaxMicro = 1
  MaxTime = 1
  Requests = {1, 2, 3, 4}
  Names = {n1, n2}
  MaxSteals = 1
INVARIANTS TicksInOrder TimeIsCountedOnce Exclusion
PROPERTIES TicksWaitForTheirCode TicksRun InTheOrderAsked EveryRequestIsAnswered
\* Requests may all be answered and nothing more asked.
CHECK_DEADLOCK FALSE
