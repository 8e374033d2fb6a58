CONSTANTS
    MaxRows = 7
    MaxNulls = 1
    PageSizes = {1, 2, 3}
    Limits <- MCLimits
    StartPages = {1}
    Honouring = {TRUE, FALSE}
    MAX_PAGES = 4
    None = None
SPECIFICATION FairSpec
CHECK_DEADLOCK FALSE
INVARIANTS
    Complete
    NoRowTwice
    LimitRespected
    RunawayJustified
PROPERTY Terminates
