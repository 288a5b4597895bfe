\* Two attempts on one market or on two, drawing on one account; two balance
\* fetches that overlap and may lack their answer; restarts, with and without
\* DRY_RUN.
CONSTANTS
  Markets = {m1, m2}
  Attempts = {a1, a2}
  LegCosts <- OneCost
  Fetches = {f1, f2}
  FUNDS = 3
  COOLDOWN = 1
  SETTLE = 1
  DRY_RUNS = {TRUE, FALSE}
  FAULTS = {"balance", "stop"}
  None = None
  DryRunId = DryRunId
  EmptyId = EmptyId
SPECIFICATION Spec
SYMMETRY Symmetry
INVARIANTS OneAttemptPerMarket
PROPERTIES SettleGap ImplementsGate RefusedCannotPay
