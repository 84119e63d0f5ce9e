SPECIFICATION Spec
CONSTANTS
  Tokens = {t1}
  Null = Null
  Unset = Unset
  Handles = {}
  Timers = {x1}
  Ports = {}
  MaxListeners = 1
INVARIANT HeldTimerIsPending
CHECK_DEADLOCK FALSE
