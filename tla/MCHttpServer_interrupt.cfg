SPECIFICATION HostSpec
CONSTANTS
  Conn = {c1, c2}
  MaxConcurrent = 2
  None = None
  MaxAttempt = 1
  Callback = {b1}
CHECK_DEADLOCK FALSE
INVARIANTS
  StopInterruptsAll
