\* The defaults of Config.load; every quote of the grid.
CONSTANTS
  THRESHOLD = 100
  PADDING = 15
  COEFFICIENT = 50
  MAX_POSITION = 60000
  MIN_SHARES = 50000
  Asks <- SomeAsks
  Depths <- SomeDepths
  None = None
SPECIFICATION Spec
\* A quote that is refused, or whose orders are built, is done with.
CHECK_DEADLOCK FALSE
INVARIANTS PaysOut LegWithinPosition WithinDepth LimitReachesQuote BetterIsTaken
