\* Two threads, two sends each into a queue of one slot, counters that wrap at 3.
\* A ring of two bytes whose indices wrap at 4, five bytes in writes of one or
\* three, reads of one (the drain takes all there is).
SPECIFICATION ThreadsSpec
CONSTANTS
  Threads = {t1, t2}
  Slots = 1
  CounterModulus = 3
  MaxSends = 2
  Capacity = 2
  Modulus = 4
  ChunkSizes = {1, 3}
  ReadSizes = {1}
  MaxBytes = 5
INVARIANTS TypeOK WritersExclude InOrder
PROPERTIES SendsAreServed ImplementsPipe NoWakeLost
\* The program may end when it has sent and written.
CHECK_DEADLOCK FALSE
