SPECIFICATION Spec
CONSTANTS
  Handlers = {h1}
  MessageCount = 2
  Payloads <- MCPayloads
  Rules <- MCRules
  Slots = 2
  MaxDelivers <- MCMaxDelivers
  MaxFaults = 0
  Start = 2
  Horizon = 3
  Folded <- MCFolded
  Sanitized <- MCSanitized
  Fits <- MCFits
INVARIANTS
  EventsAsSent
CHECK_DEADLOCK FALSE
