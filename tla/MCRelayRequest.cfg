SPECIFICATION RequestSpec
CONSTANTS
  Letter = {"a", "b"}
  Chunk <- Texts
  MaxText = 5
  Tool = {1, 2}
  Stops <- Forbidden
  MaxStop = 3
  Models <- TwoModels
  NamePart <- Parts
  Settings <- Snapshots
  Wish <- Asked
  MaxApply = 2
  None = None
CHECK_DEADLOCK FALSE
INVARIANTS
  StopCut
  EndingIsTrue
  AccountGivenBack
  SentIsOffered
PROPERTIES
  RequestEnds
