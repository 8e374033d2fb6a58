CONSTANTS
    Tasks = {t1, t2, t3}
    TTL = 2
    MaxClock = 5
    NoTask = NoTask
SPECIFICATION CapsFairSpec
INVARIANTS
    OneProbe
PROPERTIES
    ProbesApart
    AnswersFresh
    EveryCallReturns
