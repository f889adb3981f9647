SPECIFICATION Spec
CONSTANTS
  Handlers = {h1, h2}
  MessageCount = 2
  Payloads <- MCPayloads
  Rules <- MCRules
  Slots = 2
  MaxDelivers <- MCMaxDelivers
  MaxFaults = 1
  Start = 2
  Horizon = 3
  Folded <- MCFolded
  Sanitized <- MCSanitized
  Fits <- MCFits
INVARIANTS
  AnswerTellsTheTruth
  CountedOncePerDelivery
  LeaksOnlyFromRejected
PROPERTIES
  MessagesSettle
CHECK_DEADLOCK FALSE
