SPECIFICATION Spec
CONSTANTS
  MaxRuns = 1
  PhaseCount = 1
  MaxBuilds = 0
  MaxAdminActions = 1
  MaxOutdated = 1
  ForcePaths = {}
  TemporalOutage = FALSE
  DatabaseOutage = FALSE
CHECK_DEADLOCK FALSE
PROPERTIES
  CancellationIsFinal
