\* two processes, one pipeline input, one packet with two candidates, files of
\* two chunks; three rows for a single writer (an orphan and its retry with a
\* review, or one event reviewed twice), two at the start of a call when two
\* writers race (enough for both to promote or to review the same row)
SPECIFICATION Spec
CONSTANTS
    c1 = c1
    c2 = c2
    r1 = r1
    p = p
    Callers = {c1, c2}
    Runs = {r1}
    Packets = {p}
    MaxIndex = 2
    MaxChunks = 2
    Reviews = {"active", "rejected"}
    MaxRows = 3
    MaxRacing = 2
SYMMETRY LedgerSymmetry
INVARIANTS
    ProvenanceHolds
    DuplicatesArePaidFor
    RevisionsExplainStatus
CHECK_DEADLOCK FALSE
