SPECIFICATION Spec
CONSTANTS
    c1 = c1
    c2 = c2
    here = here
    there = there
    x1 = x1
    x2 = x2
    k1 = k1
    k2 = k2
    Callers = {c1, c2}
    Sites = {here, there}
    Texts = {x1, x2}
    Seconds = {1}
    Candidates = {k1, k2}
    Fields <- MCFields
    Single <- MCSingle
    Racing <- MCRacing
    MaxBundles = 1
SYMMETRY ContinuitySymmetry
INVARIANTS
    ImportsStayWhole
    IdsKeepTheirMeaning
CHECK_DEADLOCK FALSE
