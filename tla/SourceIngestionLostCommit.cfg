SPECIFICATION Spec
CONSTANTS
    Sources = {s1}
    Workers = {w1, w2}
    Configs = {c1, c2}
    Values = {0, 1}
    Reviewed = {}
    MaxFailures = 2
    MaxFaults = 2
    MaxChanges = 1
    LostAcks = TRUE
    None = None
SYMMETRY Symmetry
PROPERTIES PublishedIsSuccess
