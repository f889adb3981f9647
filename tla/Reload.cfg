CONSTANTS
  Rules <- All
  Channel <- OwnChannel
  OffRules = {2}
  Endless = {1}
  Token <- Named
  Prefix <- Spaced
  Snapshots <- Files
  Handlers = {h1}
  Connections = {1, 2, 3, 4}
  MaxEdits = 1
  MaxFaults = 1
SPECIFICATION Spec
INVARIANTS TypeOK NothingLostAtRest OrphanOnlyForCause
PROPERTIES SettlesOnFile
CHECK_DEADLOCK FALSE
