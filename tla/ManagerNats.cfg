\* One instance on NATS: a handler, the ticker and the TTL consumer race.
SPECIFICATION Spec
CONSTANTS
  Alerts = {a1}
  i1 = i1
  i2 = i2
  g1 = g1
  g2 = g2
  x1 = x1
  x2 = x2
  Instances = {i1}
  Workers = {g1}
  Tickers = {g2}
  Expirers = {x1}
  Home <- OneHome
  Rules <- MutedPosts
  Store = "nats"
  Ingest = {"push"}
  Repeat = FALSE
  MaxLives = 2
  MaxSends = 2
  MaxFails = 1
  MaxRestarts = 0
INVARIANTS ResolvedCardTransient ActiveHasCard
CHECK_DEADLOCK FALSE
