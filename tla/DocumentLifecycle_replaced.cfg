SPECIFICATION Spec
CONSTANTS
  MaxRuns = 2
  PhaseCount = 1
  MaxBuilds = 0
  MaxAdminActions = 0
  MaxOutdated = 2
  ForcePaths = {"review"}
  TemporalOutage = FALSE
  DatabaseOutage = FALSE
CHECK_DEADLOCK FALSE
INVARIANTS
  TypeOK
  ReviewsItsOwn
PROPERTIES
  KeepsReviewPromise
