\* A cold start and the deletion of one project: the contract, the retry budget
\* and liveness.  No symmetry, because of the liveness property.
SPECIFICATION FairSpec
CONSTANTS
    j1 = j1
    j2 = j2
    j3 = j3
    p1 = p1
    p2 = p2
    Project = {p1, p2}
    Slot = {w1, w2}
    HeavyLimit = 1
    NoJob = NoJob
    Nobody = Nobody
    Job <- TwoJobs
    ProjectOf <- TwoProjectOf
    KindOf <- TwoKindOf
    MaxRequests = 2
    MaxTroubles = 1
INVARIANTS
    AttemptsAreBounded
PROPERTIES
    ImplementsContract
    EventuallySettled
\* All jobs may be settled and every bound used up.
CHECK_DEADLOCK FALSE
