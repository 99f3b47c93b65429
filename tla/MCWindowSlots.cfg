SPECIFICATION Spec
CONSTANTS
  p1 = p1
  p2 = p2
  v1 = v1
  v2 = v2
  Port <- OnePort
  Slots = 2
  Value <- TwoValues
  Nothing = Nothing
  Foreign = Foreign
  StepsFail = FALSE
  Moved = FALSE
  Files = FALSE
  MaxQueue = 1
  MaxMoves = 0
  MaxClicks = 6
CHECK_DEADLOCK FALSE
INVARIANTS
  OneAtATime
  QuestionsStand
  ReviewIsTrue
PROPERTIES
  WrittenIsTheEdit
  WritingEnds
