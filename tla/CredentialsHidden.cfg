CONSTANTS
    Logins = {ann, bot}
    MaxSecrets = 3
    MaxRuns = 4
    KeyringFails = {FALSE}
    EnvSlots = {"web"}
    Overrides = {None}
    Insecure = {FALSE}
    None = None
SPECIFICATION Spec
CHECK_DEADLOCK FALSE
INVARIANT NoneMeansNowhere
