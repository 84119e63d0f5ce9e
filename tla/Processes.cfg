\* Numbers 2 and 3, each of which may be handed out again; two runs with two handles, or
\* with a timer and a port.
SPECIFICATION ProcessesSpec
CONSTANTS
  Scopes = {s1, s2}
  RunTokens = {k1, k2}
  MaxPid = 3
  FirstPid = 3
  MaxRuns = 3
  Tokens = {t1, t2}
  Null = Null
  Unset = Unset
  Handles = {h1, h2}
  Timers = {x1}
  Ports = {p1}
  MaxListeners = 2
SYMMETRY ProcessSymmetry
CONSTRAINT OneKind
INVARIANTS RegistryTypeOK NumbersAreOwned LiveIsRun GroupsHaveLeaders
INVARIANTS TypeOK LoopIsHeldByItsOwn EndLeavesNothing EndIsReported
PROPERTIES SignalsReachTheirProcess
\* The program may end.
CHECK_DEADLOCK FALSE
