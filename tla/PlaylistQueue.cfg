SPECIFICATION FairSpec
CONSTANTS
    f1 = f1
    j1 = j1
    j2 = j2
    s1 = s1
    s2 = s2
    o1 = o1
    Festivals = {f1}
    Jobs = {j1, j2}
    FestivalOf <- MCFestivalOf
    Owners = {o1}
    Sessions = {s1, s2}
    None = None
    Ttl = 2
    MaxLifetime = 3
    RetryBase = 1
    RetryCap = 2
    MaxAttempts = 2
INVARIANTS OneRunningPerFestival CheckedStillHeld
PROPERTIES LiveAttemptKept SettledByHolder BackoffRespected  ImplementsExclusion
