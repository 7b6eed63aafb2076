\* Each part at the size where its races happen; quotas of 1 and 2, so that a role
\* and a patch both matter.
SPECIFICATION ServicesSpec
CONSTANTS
    Request = {p1, p2}
    Client = {c1}
    Version = {v1, v2}
    Account = {a1, a2}
    MaxRows = 6
    Upload = {u1}
    Body = {b1}
    Key = {k1}
    Chunks = 2
    MaxFiles = 3
    MaxBuilds = 2
    Owner = {o1}
    MaxKeys = 4
    Probe = {j1}
    MaxQuota = 2
    DefaultQuota = 1
    OperatorQuota = 2
    MaxProjects = 3
    Worker = {p1, p2}
    File = {1, 2}
    Form = {old, new}
    MaxForms = 2
    RuntimeRoom = 1
    BuildRoom = 1
    MaxTroubles = 1
    ReadDays = 1
    VisitorDays = 2
    VisitDays = 3
    MaxDay = 5
    MaxVisits = 2
    MaxValues = 2
INVARIANTS
    UploadedIsKept
\* The rows and the keys run out.
CHECK_DEADLOCK FALSE
