SPECIFICATION Spec
CONSTANTS
  Request = {r1, r2}
  Response = {a, b, c}
  Cap = {1, 2}
  Image = {TRUE}
  MaxSaid = 2
  MaxItems = 4
  MaxTools = 3
  None = None
SYMMETRY Symmetry
ACTION_CONSTRAINT Steps
VIEW SessionView
INVARIANTS
  AccountGivenBack
  InputKeepsTurns
  ToolsComeBack
  SessionIsConversation
  CompletedIsKept
  SavedComesBack
  EventsInOrder
