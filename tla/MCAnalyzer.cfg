\* Two markets come and go while updates arrive for both.
CONSTANTS
  THRESHOLD = 100
  PADDING = 15
  COEFFICIENT = 50
  MAX_POSITION = 60000
  MIN_SHARES = 50000
  Markets = {m1, m2}
  Seeds <- SomeSeeds
  Asks = {0, 4500, 5600}
  Depths = {60000, 200000}
  None = None
SPECIFICATION Spec
SYMMETRY Symmetry
INVARIANTS TypeOK TokenMapCoherent BookIsLastHeard
PROPERTIES OnlyListedTrade NoColdTrade ImplementsBook
