SPECIFICATION Spec
CONSTANTS
  p1 = p1
  p2 = p2
  v1 = v1
  v2 = v2
  Port <- TwoPorts
  Slots = 1
  Value <- TwoValues
  Nothing = Nothing
  Foreign = Foreign
  StepsFail = TRUE
  Moved = TRUE
  Files = TRUE
  MaxQueue = 1
  MaxMoves = 1
  MaxClicks = 3
CHECK_DEADLOCK FALSE
SYMMETRY Sym
INVARIANTS
  WaitsEndWithTheirWrite
PROPERTIES
  EditsStay
