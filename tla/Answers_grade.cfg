CONSTANTS
  w1 = w1
  w2 = w2
  w3 = w3
  Words = {w1, w2, w3}
  MaxRetries = 3
  Threshold = 50
  MaxPieces = 3
SPECIFICATION Spec
CHECK_DEADLOCK FALSE
SYMMETRY AnyWords
INVARIANTS
  AnswersTypeOK
  DispatchedAlone
  GradeIsEarned
  ConversationAlternates
PROPERTIES
  CallIsHeard
  LastTextCounts
  KeepsToLoop
