CONSTANTS
    Runs = {p1, p2}
    Repos = {"a-b/c", "a/b-c"}
    Topics = {"t", "u"}
    Paths = {"a-b-c"}
    PathOf <- MCPathOf
    Commands <- MCCommands
    Overlap = TRUE
    MaxOthers = 1
    Torn = Torn
    None = None
SPECIFICATION Spec
CHECK_DEADLOCK FALSE
SYMMETRY MCSymmetry
INVARIANTS
    WorkSurvives
    AdviceIsRight
    ReviewsOnOwn
