\* Two visitors; nobody deploys, renders or changes limits; one container dies or
\* one call fails.
SPECIFICATION Spec
CONSTANTS
    v1 = v1
    Visitor = {v1, v2}
    Null = Null
    MaxRequests = 0
    MaxTroubles = 1
INVARIANTS
    VerdictIsOwn
CHECK_DEADLOCK FALSE
