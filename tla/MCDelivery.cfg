\* Limits of one and two versions, two more created, two deployments, one trouble.
SPECIFICATION FairSpec
CONSTANTS
    MaxExtra = 2
    MaxDeployments = 2
    MaxLimit = 2
    MaxTroubles = 1
INVARIANTS
    TypeOK
    VersionsAreServable
    LiveIsAccounted
    LatestStays
PROPERTIES
    DeploymentSettles
\* Every bound used up, there is nothing left to do.
CHECK_DEADLOCK FALSE
