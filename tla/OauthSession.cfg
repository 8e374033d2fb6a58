CONSTANTS
    Logins = {ann, bot}
    Procs = {p1, p2}
    WholeFile = FALSE
    Lifetime = 3
    Skew = 2
    MaxClock = 5
    MaxRefreshes = 3
SPECIFICATION Spec
SYMMETRY MCSymmetry
INVARIANTS
    Refreshable
    AliveWithinSkew
    UsedIsRecorded
