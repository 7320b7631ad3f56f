SPECIFICATION FairSpec
CONSTANTS
    Sources <- MCSources
    MaxAttempts = 2
    MaxCrashes = 1
    MaxAdmin = 1
    MaxClosings = 1
    MaxEdits = 1
CHECK_DEADLOCK FALSE
INVARIANTS
    TypeOK
    OneActiveAttempt
    SuccessIsEarned
    SucceededRunIsComplete
    ReportIsDurable
PROPERTIES
    SettlesTogether
    KeepsLedger
    CancelTakesEffect
    SourceSettles
