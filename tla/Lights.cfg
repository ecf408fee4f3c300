\* Two callers and four requests; nothing is bounded.
CONSTANTS
    Threads = {t1, t2}
    Requests <- MCRequests
SPECIFICATION Spec
SYMMETRY MCSymmetry
INVARIANTS
    TypeOK
    LedShowsWanted
PROPERTIES
    AttentionUndisturbed
