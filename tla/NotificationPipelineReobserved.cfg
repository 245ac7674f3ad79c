SPECIFICATION FairSpec
CONSTANTS
    Keys = {k1}
    Recipients = {r1, r2}
    Dispatchers = {d1}
    MaxAttempts = 2
    Limit = 2
    MaxStaged = 2
    MaxFaults = 1
    MaxToggles = 1
    None = None
CHECK_DEADLOCK FALSE
PROPERTIES ReobservedIsSilent
