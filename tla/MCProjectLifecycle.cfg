\* Two requests of any kind, either perhaps stale, and one failure or crash.
SPECIFICATION FairSpec
CONSTANTS
    c1 = c1
    c2 = c2
    Client = {c1, c2}
    Null = Null
    MaxWeek = 1
    MaxTroubles = 1
ACTION_CONSTRAINT InOrder
INVARIANTS
    TypeOK
    CredentialsAreReal
PROPERTIES
    PurgeWarranted
    LiveNotDemoted
    MarkedIsPurged
    QuotaEnforced
\* A purged project has nothing left to do.
CHECK_DEADLOCK FALSE
