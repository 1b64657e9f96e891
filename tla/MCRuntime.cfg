\* three tasks, two polled at a time, a checkpoint every second iteration
SPECIFICATION FairSpec
CONSTANTS
    Tasks = {1, 2, 3}
    NoHandler = {3}
    MaxIterations = 6
    CheckpointEvery = 2
    PollLimit = 2
    MaxDeaths = 2
    MaxMoves = 1
INVARIANTS
    HandlerRunsOnce
    CheckpointNotAhead
    OrphansPerDeath
PROPERTIES
    ReadyIsPickedUp
CHECK_DEADLOCK FALSE
