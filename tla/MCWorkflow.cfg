\* three shapes of plan, two crashes anywhere, one submission, a snapshot at
\* every stage advance and every third event
SPECIFICATION FairSpec
CONSTANTS
    Plans <- MCPlans
    EventsPerSnapshot = 3
    MaxCrashes = 2
    MaxSubmits = 1
INVARIANTS
    RowNeverAhead
    LineageIsTruth
    SnapshotReplayAgrees
    StateMeansProgress
PROPERTIES
    KeepsContract
    ExecutionSettles
    RowCatchesUp
CHECK_DEADLOCK FALSE
