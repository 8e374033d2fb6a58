CONSTANTS
    Machines = {m1, m2}
    Procs = {p1, p2}
    Exports = TRUE
    MaxRuns = 3
    None = None
SPECIFICATION Spec
CHECK_DEADLOCK FALSE
SYMMETRY MCSymmetry
INVARIANTS
    Kept
    StoredIsSignedIn
    ActsOnce
    ExpiredIsGone
PROPERTY StepsRunOut
