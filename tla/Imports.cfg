SPECIFICATION PartsSpec
CONSTANTS
    Sources = {s1}
    Workers = {w1, w2}
    Configs = {c1, c2}
    Values = {0, 1}
    Reviewed = {}
    MaxFailures = 1
    MaxFaults = 2
    MaxChanges = 2
    LostAcks = TRUE
    None = None
    a1 = a1
    a2 = a2
    m1 = m1
    m2 = m2
    i1 = i1
    Order <- MCOrder
    Early <- MCEarly
    Namesakes = {}
    Answers <- MCAnswers
    Relations <- MCRelations
    Payloads <- MCPayloads
    Protected <- MCProtected
    Absent = Absent
    Dead = Dead
    Enrichers = {w1, w2}
    MaxDays = 1
    MaxCrashes = 1
SYMMETRY Symmetry
INVARIANTS RowsSound IdentitiesSound
PROPERTIES ObservationsInOrder ConfigurationFenced SettledRight ProgressKept
