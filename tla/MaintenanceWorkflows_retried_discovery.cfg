SPECIFICATION Spec
CONSTANTS
    Plans <- OnePoll
    NumDocs = 2
    MaxTries = 2
    MaxFaults = 0
CHECK_DEADLOCK FALSE
INVARIANT
    DiscoveredRunIsStarted
