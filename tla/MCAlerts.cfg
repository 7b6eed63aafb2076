\* Two overlapping passes, one alert that may be episodic or not, two troubles.
SPECIFICATION FairSpec
CONSTANTS
    Pass = {p1, p2}
    Alert = {a}
    For = 2
    ClearAfter = 2
    MaxAttempts = 2
    BatchLimit = 2
    MaxMails = 2
    MaxTroubles = 2
    MaxPages = 1
    Recipients = {r1, r2}
INVARIANTS
    SentOnce
    NoRuleStaysSilent
    NothingInClear
    SentIsReceived
PROPERTIES
    NoDoubleAlarm
    BreachIsTold
\* A mail that was sent or has hung has nothing left to do.
CHECK_DEADLOCK FALSE
