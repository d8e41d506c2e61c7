SPECIFICATION Spec
CONSTANTS
  w1 = w1
  d1 = d1
  o1 = o1
  o2 = o2
  o3 = o3
  o4 = o4
  Id = {w1, d1}
  SourceOf <- SourcesOf
  Object = {o1, o2, o3, o4}
  Thread = {"request", "credit", "batch"}
  MaxLogin = 2
  MaxRotation = 1
  None = None
SYMMETRY Objects
VIEW Seen
INVARIANTS
  RowHasVault
  VaultNotOlder
  EnabledPersists
  TokenKept
PROPERTIES
  DeletedStaysDeleted
