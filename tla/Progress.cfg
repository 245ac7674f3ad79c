SPECIFICATION PartsSpec
CONSTANTS
    Posts = {q1, q2}
    Killable = {"tick", "switch"}
    Modes = {"legacy", "db-due"}
    Sources = {s1}
    Workers = {w1, w2}
    Configs = {c1, c2}
    Values = {0, 1, 2}
    Reviewed = {2}
    MaxFailures = 1
    MaxFaults = 1
    MaxChanges = 1
    LostAcks = TRUE
    None = None
    NoClaim = NoClaim
    failure = failure
    Drains = {d1}
    MaxWork = 3
    Cases = {c1}
    Runs = {r1, r2}
    Rescue = 1
    Alarm = 2
    Lease = 2
    a1 = a1
    a2 = a2
    m1 = m1
    Absent = Absent
    Dead = Dead
    Enrichers = {w1}
    MaxDays = 1
    MaxCrashes = 1
CHECK_DEADLOCK FALSE
INVARIANTS SchedulerSafe
PROPERTIES WorkGetsDone WatcherQuiet
