\* The passes of one process; nothing of the mails happens.
SPECIFICATION FairSpec
CONSTANTS
    Pass = {p1, p2}
    Alert = {a}
    For = 2
    ClearAfter = 2
    MaxAttempts = 2
    BatchLimit = 2
    MaxMails = 2
    MaxTroubles = 0
    MaxPages = 1
    Recipients = {r1, r2}
INVARIANTS
    OutageIsSaid
\* A mail that was sent or has hung has nothing left to do.
CHECK_DEADLOCK FALSE
