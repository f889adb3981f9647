\* The tick of a firing alert expires after a restart.
SPECIFICATION Spec
CONSTANTS
  Alerts = {a1}
  i1 = i1
  i2 = i2
  g1 = g1
  g2 = g2
  x1 = x1
  x2 = x2
  Instances = {i1}
  Workers = {g1}
  Tickers = {g2}
  Expirers = {x1}
  Home <- OneHome
  Rules <- CountTrackers
  Store = "nats"
  Ingest = {"push"}
  Repeat = FALSE
  MaxLives = 1
  MaxSends = 3
  MaxFails = 0
  MaxRestarts = 1
INVARIANTS RestartSafeResolve
CHECK_DEADLOCK FALSE
