\* Three jobs of two projects compete for two slots; one thing goes wrong.
SPECIFICATION Spec
CONSTANTS
    j1 = j1
    j2 = j2
    j3 = j3
    p1 = p1
    p2 = p2
    Project = {p1, p2}
    Slot = {w1, w2}
    HeavyLimit = 1
    NoJob = NoJob
    Nobody = Nobody
    Job <- ThreeJobs
    ProjectOf <- ThreeProjectOf
    KindOf <- ThreeKindOf
    MaxRequests = 4
    MaxTroubles = 1
SYMMETRY SlotSymmetry
INVARIANTS
    TypeOK
    LeaseBacksWork
    OneWorkerPerProject
    HeavyAllowance
\* All jobs may be settled and every bound used up.
CHECK_DEADLOCK FALSE
