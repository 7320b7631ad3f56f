SPECIFICATION FairSpec
CONSTANTS
    NumRuns = 2
    DocumentMaps <- OneOrTwoDocuments
    MaxAttempts = 2
    MaxClosings = 1
    Budgets <- InPollOrBatch
CHECK_DEADLOCK FALSE
INVARIANTS
    TypeOK
    ChildrenAgree
    SealedSetIsAttached
PROPERTIES
    NoLateWrites
    ContextComesFirst
    KeepsHandoff
    BatchSettles
