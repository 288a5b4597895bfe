\* A list of two markets, then one of one.
CONSTANTS
  m1 = m1
  m2 = m2
  m3 = m3
  m4 = m4
  m5 = m5
  Markets = {m1, m2, m3, m4, m5}
  Lists <- ShrinkingLists
  NUM_WS = 2
  CAPACITY = 2
  REFRESHES = 2
  FAILURES = 0
SPECIFICATION Spec
\* Once the bounds are used up and the feed has settled, nothing is left to do.
CHECK_DEADLOCK FALSE
INVARIANT NoZombieSubscription
