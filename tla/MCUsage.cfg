SPECIFICATION UsageSpec
CONSTANTS
  r1 = r1
  r2 = r2
  a1 = a1
  a2 = a2
  Request = {r1, r2}
  Account = {a1, a2}
  Saas = {a2}
  None = None
  Record = {"x", "y", "z"}
  Limit = 2
  KeepDays = 2
  MaxDay = 3
CHECK_DEADLOCK FALSE
INVARIANTS
  RecordedOnce
  PendingHasQuery
  CountIsOfDay
  NewestShown
PROPERTIES
  QueuedIsQueried
  AcquireReturns
  OperationReturns
