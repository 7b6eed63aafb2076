\* Without any trouble: an alert observed only while something is wrong does not clear.
SPECIFICATION FairSpec
CONSTANTS
    Pass = {p1, p2}
    Alert = {a}
    For = 2
    ClearAfter = 2
    MaxAttempts = 2
    BatchLimit = 2
    MaxMails = 2
    MaxTroubles = 0
    MaxPages = 1
    Recipients = {r1, r2}
PROPERTIES
    EveryAlertClears
\* A mail that was sent or has hung has nothing left to do.
CHECK_DEADLOCK FALSE
