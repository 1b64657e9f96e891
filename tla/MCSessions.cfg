SPECIFICATION Spec
CONSTANTS
    c1 = c1
    c2 = c2
    k1 = k1
    k2 = k2
    x1 = x1
    x2 = x2
    Callers = {c1, c2}
    Keys = {k1, k2}
    Contents = {x1, x2}
    Rules <- MCRules
    Events <- MCEvents
    Memories <- MCMemories
    Policies <- MCPolicies
    Confidences = {2, 4}
    Statuses = {"active", "deprecated"}
    Relations = {"supports"}
    MaxGovernance = 5
    MaxContended = 4
    MaxLog <- MCMaxLog
    Latest = 16
    OldVersions = {0, 1, 2, 3, 4, 5, 6, 7, 8, 9, 10, 11, 12, 13, 14, 15, 16}
SYMMETRY SessionSymmetry
INVARIANTS
    TimelineHolds
    DecisionsAreExplained
    ContextIsBounded
    ContextMissesNothing
    SchemaMatchesVersion
CHECK_DEADLOCK FALSE
