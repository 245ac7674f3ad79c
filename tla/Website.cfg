SPECIFICATION PartsSpec
CONSTANTS
    c1 = c1
    c2 = c2
    d1 = d1
    d2 = d2
    ada = ada
    bob = bob
    Calls = {c1, c2}
    Shell = {"offline.html"}
    Assets = {"app.js"}
    MaxEntries = 2
    MaxAge = 0
    Revisions = {1, 2}
    MaxNow = 1
    None = None
    Nothing = Nothing
    Devices = {d1, d2}
    Order <- MCOrder
    Items = {"a"}
    Filters = {"all", "month"}
    EmptyFilter = "all"
    MaxActs = 4
    t1 = t1
    t2 = t2
    t3 = t3
    b1 = b1
    b2 = b2
    Tabs = {t1, t2, t3}
    Browsers = {b1, b2}
    BrowserOf <- MCBrowserOf
    Emails = {ada, bob}
    ResendDelay = 1
    LinkLife = 2
    CeremonyLife = 1
    MaxSteps = 4
    MaxClock = 2
SYMMETRY Symmetry
CHECK_DEADLOCK FALSE
 
PROPERTIES   AccountsHonoured
