\* one crash between the two commits of a new execution is enough
SPECIFICATION FairSpec
CONSTANTS
    Plans <- MCPlans
    EventsPerSnapshot = 0
    MaxCrashes = 1
    MaxSubmits = 0
PROPERTIES
    RecoveryMakesConsistent
CHECK_DEADLOCK FALSE
