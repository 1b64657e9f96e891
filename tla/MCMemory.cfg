SPECIFICATION Spec
CONSTANTS
    c1 = c1
    c2 = c2
    m1 = m1
    m2 = m2
    w1 = w1
    w2 = w2
    w3 = w3
    Callers = {c1, c2}
    Confidences = {2, 4}
    Statuses = {"active", "deprecated"}
    Relations = {"derived_from", "contradicts"}
    MaxGovernance = 5
    MaxContended = 4
    Models = {m1, m2}
    MaxPins = 3
    MaxEmbeddings = 4
    MaxArtifacts = 3
    MaxOfEach = 2
    ChainLimit = 3
    Words = {w1, w2, w3}
    NoWord = none
    MaxUses = 1
    MaxClock = 1
SYMMETRY MemorySymmetry
INVARIANTS
    ConfidenceChains
    ContradictionsSurface
    EmbeddingsFollowPins
    SupersessionIsReported
    SeedsAreTraceable
    TermsStayResolvable
CHECK_DEADLOCK FALSE
