SPECIFICATION Spec
CONSTANTS
  NKeys = 3
  Stores <- MixedStores
  Uploads = {1, 2, 3}
  LifeDay = 1
  BatchSize = 2
  Getters = {g1}
  MaxTrouble = 2
INVARIANTS Thorough
PROPERTIES OnlyExpired AnswersFit Ends
CHECK_DEADLOCK FALSE
