\* Single mode: goroutines that take turns on an alert, over two lives.
SPECIFICATION Spec
CONSTANTS
  Alerts = {a1, a2}
  i1 = i1
  i2 = i2
  g1 = g1
  g2 = g2
  x1 = x1
  x2 = x2
  Instances = {i1}
  Workers = {g1}
  Tickers = {g2}
  Expirers = {}
  Home <- OneHome
  Rules <- TurnRules
  Store = "memory"
  Ingest = {"push", "batch"}
  Repeat = TRUE
  MaxLives = 2
  MaxSends = 5
  MaxFails = 0
  MaxRestarts = 0
INVARIANTS CardFollowsAlert
CONSTRAINT TakingTurns
SYMMETRY SameAlerts
CHECK_DEADLOCK FALSE
