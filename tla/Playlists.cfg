SPECIFICATION PartsSpec
CONSTANTS
    e1 = e1
    e2 = e2
    p0 = p0
    p1 = p1
    Jobs = {1, 2}
    Editions = {e1, e2}
    Ids = {p0, p1}
    Pasts <- MCPasts
    Parts = 2
    MaxAttempts = 3
    None = None
    YtJobs = {1, 2}
    Videos = {a, b}
    Legacy = y0
    New = {n1, n2}
    Rebinds = {Nothing, y0}
    Late = {"create", "put", "insert"}
    MaxItems = 3
    f1 = f1
    f2 = f2
    Null = Null
    Nothing = Nothing
    Festivals = {f1, f2}
    FestivalOf <- MCFestivalOf
    Routes = {r1}
    Timers = {t1}
    DbTimers = {d1}
    Direct = {y1}
    Skips = {f2}
    Requests = {{}, {f1}}
    CutoverJobs = {1, 2, 3}
    MaxRows = 2
    MaxClaims = 2
    MaxOrphans = 1
CHECK_DEADLOCK FALSE
INVARIANTS   NothingStranded
PROPERTIES  SucceededIsBuilt
