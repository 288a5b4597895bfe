\* README.md:99's example of a threshold of 0.2 %.
CONSTANTS
  THRESHOLD = 20
  PADDING = 15
  COEFFICIENT = 50
  MAX_POSITION = 60000
  MIN_SHARES = 50000
  Asks <- ThinAsks
  Depths <- ThinDepths
  None = None
SPECIFICATION Spec
CHECK_DEADLOCK FALSE
INVARIANTS PaysOut
