\* One deletion and the measurement that was queued before it.
SPECIFICATION Spec
CONSTANTS
    c1 = c1
    c2 = c2
    Client = {c1}
    Null = Null
    MaxWeek = 1
    MaxTroubles = 0
INVARIANT RestoreCancels
CHECK_DEADLOCK FALSE
