SPECIFICATION HostSpec
CONSTANTS
  Conn = {c1, c2, c3}
  MaxConcurrent = 2
  None = None
  MaxAttempt = 2
  Callback = {b1, b2}
CHECK_DEADLOCK FALSE
INVARIANTS
  NoConnectionAfterStop
  LoginOnce
PROPERTIES
  ServerDrains
  LoginEnds
