\* Two instances on NATS share the cards of one alert.
SPECIFICATION Spec
CONSTANTS
  Alerts = {a1}
  i1 = i1
  i2 = i2
  g1 = g1
  g2 = g2
  x1 = x1
  x2 = x2
  Instances = {i1, i2}
  Workers = {g1, g2}
  Tickers = {g1}
  Expirers = {x1}
  Home <- TwoHomes
  Rules <- MutedPosts
  Store = "nats"
  Ingest = {"batch"}
  Repeat = FALSE
  MaxLives = 2
  MaxSends = 3
  MaxFails = 0
  MaxRestarts = 1
INVARIANTS TypeOK TransitionOncePerWrite
PROPERTIES RefWriteKeepsTransition
CHECK_DEADLOCK FALSE
