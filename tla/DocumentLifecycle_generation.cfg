SPECIFICATION Spec
CONSTANTS
  MaxRuns = 1
  PhaseCount = 1
  MaxBuilds = 0
  MaxAdminActions = 0
  MaxOutdated = 1
  ForcePaths = {"classify", "maintenance"}
  TemporalOutage = TRUE
  DatabaseOutage = TRUE
CHECK_DEADLOCK FALSE
INVARIANTS
  PublishedOnce
  CommitAndCommandAgree
PROPERTIES
  KeepsReviewPromise
  SettledGenerationsRest
