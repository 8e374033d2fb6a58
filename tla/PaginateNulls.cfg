CONSTANTS
    MaxRows = 5
    MaxNulls = 1
    PageSizes = {2}
    Limits = {None}
    StartPages = {1}
    Honouring = {TRUE}
    MAX_PAGES = 4
    None = None
SPECIFICATION Spec
CHECK_DEADLOCK FALSE
INVARIANT ShortByNullsOnly
