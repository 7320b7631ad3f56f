SPECIFICATION FairSpec
CONSTANTS
  MaxRuns = 2
  PhaseCount = 1
  MaxBuilds = 0
  MaxAdminActions = 0
  MaxOutdated = 1
  ForcePaths = {"review"}
  TemporalOutage = FALSE
  DatabaseOutage = FALSE
CHECK_DEADLOCK FALSE
PROPERTIES
  QueuedRunIsOwned
