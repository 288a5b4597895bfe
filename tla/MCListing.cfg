\* Lists of up to five markets that change twice while two fetches read them.
CONSTANTS
  Servers <- SomeServers
  Newcomers <- SomeNewcomers
  Environments <- SomeEnvironments
  LIMIT = 2
  REFRESHES = 2
  CHANGES = 2
  FAILURES = 1
  None = None
  Unreadable = Unreadable
  Empty = Empty
SPECIFICATION FairSpec
\* Once the bounds are used up nothing is left to do.
CHECK_DEADLOCK FALSE
INVARIANTS TypeOK ReadyPricesAreOwn FiltersHold
PROPERTIES FetchIsExact MissedOnlyIfSkipped DoubledOnlyIfTurned FetchEnds
