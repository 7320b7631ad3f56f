SPECIFICATION FairSpec
CONSTANTS
  MaxRuns = 1
  PhaseCount = 2
  MaxBuilds = 1
  MaxAdminActions = 1
  MaxOutdated = 1
  ForcePaths = {}
  TemporalOutage = TRUE
  DatabaseOutage = FALSE
CHECK_DEADLOCK FALSE
INVARIANTS
  QueuedHasStartIntent
PROPERTIES
  BlockedRunIsReleased
  AwaitedReviewIsResolved
  QueuedRunIsOwned
