CONSTANTS
    Logins = {ann, bot}
    MaxSecrets = 3
    MaxRuns = 4
    KeyringFails = {TRUE, FALSE}
    EnvSlots = {"web"}
    Overrides = {None, "file", "env"}
    Insecure = {TRUE, FALSE}
    None = None
SPECIFICATION Spec
CHECK_DEADLOCK FALSE
SYMMETRY MCSymmetry
INVARIANTS
    ActiveListed
    StoredIsFound
    NeverLeftWithout
    NoResurrection
    FailurePaidOnce
PROPERTY OverrideNotRemembered
