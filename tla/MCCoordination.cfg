\* one crash of each process and one failed append anywhere, two plans, both
\* ways results come back
SPECIFICATION FairSpec
CONSTANTS
    Plans <- MCPlans
    MaxDriverCrashes = 1
    MaxWorkerCrashes = 1
    MaxLost = 1
    MaxTasks = 3
    Operator = TRUE
INVARIANTS
    OneActiveTask
    TasksAreForReadyNodes
    LineageStaysValid
    WorkRepeatsOnlyAfterLoss
PROPERTIES
    ExecutionSettles
CHECK_DEADLOCK FALSE
