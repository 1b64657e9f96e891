\* one handler move is enough for execute_task to raise through run_iterations
SPECIFICATION Spec
CONSTANTS
    Tasks = {1, 2, 3}
    NoHandler = {3}
    MaxIterations = 3
    CheckpointEvery = 2
    PollLimit = 2
    MaxDeaths = 0
    MaxMoves = 1
INVARIANTS
    HandlerNeverAbortsLoop
CHECK_DEADLOCK FALSE
