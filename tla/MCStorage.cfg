SPECIFICATION Spec
CONSTANTS
  Handles = {h1, h2}
  Clients = {c1, c2}
  None = None
  Threshold = 2
  Recovered = {1}
  Clocks = {0, 2}
  Budgets <- MCBudgets
INVARIANTS FlushDurable ClosedFlushed OverfullExplained WalIsNewest
PROPERTY FlushAnswered
CHECK_DEADLOCK FALSE
