\* One alert of each kind of rule over a longer time: thresholds and liveness.
SPECIFICATION FairSpec
CONSTANTS
  AlertIds = {a1}
  Rules <- AllRules
  MaxAggCnt = 2
  IdleTTL = 3
  MaxStates = 0
  MaxLag = 1
  MaxTime = 7
  MaxTotal = 4
  NoState = NoState
INVARIANTS RaisedIffReached WindowConsistent RecoveryWitness
PROPERTIES TickSettles SilentAlertResolves MissingHeartbeatFires RecoveredHeartbeatResolves
