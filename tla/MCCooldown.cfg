\* Two opportunities on one market, spawned before either task runs.
CONSTANTS
  Markets = {m1}
  Attempts = {a1, a2}
  LegCosts <- OneCost
  Fetches = {}
  FUNDS = 6
  COOLDOWN = 3
  SETTLE = 2
  DRY_RUNS = {FALSE}
  FAULTS = {}
  None = None
  DryRunId = DryRunId
  EmptyId = EmptyId
SPECIFICATION Spec
PROPERTIES CooldownRespected
