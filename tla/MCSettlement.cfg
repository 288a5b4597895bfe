\* Every pair of order outcomes and of answers about them, late decisions and
\* restarts, with and without DRY_RUN; the exchange owes nothing.
CONSTANTS
  Markets = {m1}
  Attempts = {a1}
  LegCosts <- OneCost
  Fetches = {}
  FUNDS = 6
  COOLDOWN = 1
  SETTLE = 1
  DRY_RUNS = {TRUE, FALSE}
  FAULTS = {"query", "garbled", "delay", "stop"}
  None = None
  DryRunId = DryRunId
  EmptyId = EmptyId
SPECIFICATION FairSpec
INVARIANTS TypeOK PairedLegFlagged NoSilentFill VerdictIsComplete
INVARIANTS LegRisksNameTheirOrder TradesAreReal AlertBeforeFire DryRunIsInert
PROPERTIES AttemptEnds AnsweredIsJudged
