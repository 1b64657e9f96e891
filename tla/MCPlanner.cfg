\* every graph of at most four nodes and four references: chains,
\* forks, joins, the diamond, rings of up to four, two separate pairs, self
\* references, references to no node, one reference listed twice, one node_id
\* listed twice
SPECIFICATION PlannerSpec
CONSTANTS
    Ids = {1, 2, 3, 4}
    MaxRefs = 4
    MaxRepeats = 1
INVARIANTS
    VerdictIsRight
    StagesFollowDependencies
PROPERTIES
    PlanningEnds
CHECK_DEADLOCK FALSE
