SPECIFICATION Spec
CONSTANTS
  MaxRuns = 2
  PhaseCount = 1
  MaxBuilds = 1
  MaxAdminActions = 0
  MaxOutdated = 1
  ForcePaths = {"maintenance"}
  TemporalOutage = FALSE
  DatabaseOutage = FALSE
CHECK_DEADLOCK FALSE
INVARIANTS
  ForceIsSignalled
