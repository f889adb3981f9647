\* Two alerts of one rule: lifecycle and eviction.
SPECIFICATION Spec
CONSTANTS
  AlertIds = {a1, a2}
  Rules <- FleetRules
  MaxAggCnt = 1
  IdleTTL = 3
  MaxStates = 1
  MaxLag = 1
  MaxTime = 4
  MaxTotal = 2
  NoState = NoState
INVARIANTS TypeOK StampsFitState
PROPERTIES EvictionOrder LifecycleSpec OutcomesAsManaged
