\* A limit of one version and one more, one deployment, one crash.
SPECIFICATION Spec
CONSTANTS
    MaxExtra = 1
    MaxDeployments = 1
    MaxLimit = 1
    MaxTroubles = 1
INVARIANTS
    LiveIsThere
\* Every bound used up, there is nothing left to do.
CHECK_DEADLOCK FALSE
