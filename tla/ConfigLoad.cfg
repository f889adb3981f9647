SPECIFICATION Spec
CONSTANTS
  DayHours = 3
  HourMinutes = 2
  Directories <- MCDirectories
  Lowercase <- MCLowercase
  Malformed <- MCMalformed
INVARIANTS
  MergeMatchesLatestWord
  AcceptedCanRun
  HeartbeatOutlivesRefresh
  RoutesDeliverable
  OffWindowExact
CHECK_DEADLOCK FALSE
