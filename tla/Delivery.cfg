CONSTANTS
  Configs <- AllConfigs
  MaxNotes = 4
  MaxFaults = 2
SPECIFICATION Spec
INVARIANTS ReferencesHold
PROPERTIES SendEnds
CHECK_DEADLOCK FALSE
