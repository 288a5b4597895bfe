\* Two connections, a list replaced twice, two failures.
CONSTANTS
  m1 = m1
  m2 = m2
  m3 = m3
  m4 = m4
  m5 = m5
  Markets = {m1, m2, m3, m4, m5}
  Lists <- SomeLists
  NUM_WS = 2
  CAPACITY = 2
  REFRESHES = 3
  FAILURES = 2
SPECIFICATION FairSpec
\* Once the bounds are used up and the feed has settled, nothing is left to do.
CHECK_DEADLOCK FALSE
INVARIANTS TypeOK EveryMarketSharded NoLostWakeup
PROPERTIES FeedConverges ListedIsStreamed
