CONSTANTS
    Methods <- MCMethods
    MaxAttempts = 3
    BaseDelay = 4
    MaxBackoff = 7
    MaxRetryAfter = 12
    JitterPercent = 0
    RetryAfters = {30}
SPECIFICATION FairSpec
CHECK_DEADLOCK FALSE
INVARIANTS
    AtMostOnce
    RefusalIsDefinite
    SuccessIsReal
    BodySentOnce
    VerdictEarned
    SleepBounded
PROPERTIES
    Terminates
    ImplementsRemoteCall
