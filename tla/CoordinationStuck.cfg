\* one crash of the driver, nobody who repairs tasks
SPECIFICATION FairSpec
CONSTANTS
    Plans <- MCPlans
    MaxDriverCrashes = 1
    MaxWorkerCrashes = 0
    MaxLost = 0
    MaxTasks = 3
    Operator = FALSE
PROPERTIES
    RecoveryResumes
CHECK_DEADLOCK FALSE
