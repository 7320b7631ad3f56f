SPECIFICATION FairSpec
CONSTANTS
    Plans <- MixedPlans
    NumDocs = 2
    MaxTries = 2
    MaxFaults = 1
CHECK_DEADLOCK FALSE
INVARIANTS
    TypeOK
    CompleteIndexCovers
    OneGenerationAtATime
    QueuedRunHasAStarter
PROPERTIES
    OutcomesAreFinal
    CommandsSettle
    BlockedRunsLeave
