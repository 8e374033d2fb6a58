CONSTANTS
    Workflows = {"ci", "lint"}
    Wanted = {"ci", "lint"}
    Commands = {"watch", "status_all", "rerun"}
    Conclusions = {"success", "failure"}
    Filtering = {TRUE, FALSE}
    AppearTimeout = 1
    RUNS_PAGE_SIZE = 1
    RUNS_SCAN_PAGES = 2
    MaxRuns = 3
    MaxChanges = 1
    None = None
SPECIFICATION Spec
CHECK_DEADLOCK FALSE
INVARIANTS
    VerdictIsCurrent
    GateOpensOnRuns
PROPERTY Terminates
