\* Two markets on two connections, two refreshes, a failure, two events.
CONSTANTS
  m1 = m1
  m2 = m2
  Markets = {m1, m2}
  Lists <- SomeLists
  NUM_WS = 2
  CAPACITY = 2
  REFRESHES = 2
  FAILURES = 1
  Shapes <- SomeShapes
  MOVES = 2
  None = None
SPECIFICATION FlowSpec
\* Once the bounds are used up and all is read, nothing is left to do.
CHECK_DEADLOCK FALSE
INVARIANTS FlowTypeOK BookIsCurrent
PROPERTIES NeverBackwards
