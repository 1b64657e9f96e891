\* two processes on one database, two tasks, seven lineage events for a single
\* writer (enough to block a task, complete what it waits for and unblock it),
\* five when two writers race (enough for every pair of calls to overlap)
SPECIFICATION Spec
CONSTANTS
    c1 = c1
    c2 = c2
    Callers = {c1, c2}
    MaxTasks = 2
    MaxLineage = 7
    MaxRacing = 5
SYMMETRY CallerSymmetry
INVARIANTS
    TypeOK
    LineageEndsInState
    LineageIsChain
    UnblockJustified
    SnapshotsGrow
CHECK_DEADLOCK FALSE
