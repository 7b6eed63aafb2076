\* One change of the limits while one visitor is served; nothing fails.
SPECIFICATION Spec
CONSTANTS
    v1 = v1
    Visitor = {v1}
    Null = Null
    MaxRequests = 1
    MaxTroubles = 0
INVARIANTS
    LimitsApplied
CHECK_DEADLOCK FALSE
