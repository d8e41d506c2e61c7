SPECIFICATION CheckInSpec
CONSTANTS
  Row = {1, 2}
  User = {"u"}
  UserOf <- OneAccount
  Web = {2}
  DayLength = 2
  Target = 0
  MaxTime = 2
  MaxLogin = 1
  None = None
VIEW CheckInView
INVARIANTS
  NoBlindClaim
  SavedIsTrue
PROPERTIES
  RetrySpaced
  AnswerIsRead
