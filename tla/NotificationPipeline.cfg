SPECIFICATION FairSpec
CONSTANTS
    Keys = {k1, k2}
    Recipients = {r1}
    Dispatchers = {d1, d2}
    MaxAttempts = 2
    Limit = 2
    MaxStaged = 2
    MaxFaults = 1
    MaxToggles = 1
    None = None
CHECK_DEADLOCK FALSE
INVARIANTS RecordsTrue
PROPERTIES OutcomesStay DeliveriesEnd
