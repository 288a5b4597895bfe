\* A batch that is executed while its POST times out.
CONSTANTS
  Markets = {m1}
  Attempts = {a1}
  LegCosts <- OneCost
  Fetches = {}
  FUNDS = 6
  COOLDOWN = 3
  SETTLE = 2
  DRY_RUNS = {FALSE}
  FAULTS = {}
  None = None
  DryRunId = DryRunId
  EmptyId = EmptyId
SPECIFICATION Spec
SYMMETRY Symmetry
INVARIANTS FillsAudited
