SPECIFICATION Spec
CONSTANTS
    failure = failure
    manual = manual
    review = review
    adapter = adapter
    byHand = byHand
    Kind <- MCKind
    ConfigOf <- MCSameConfig
    Configs = {adapter}
    Values = {v1}
    MaxEdits = 0
    MaxWork = 3
    None = None
    MaxFaults = 1
    Issues = {failure}
    Feedback = {failure}
    MaxChecks = 2
    MaxClaims = 1
    Drains = {d1, d2}
CHECK_DEADLOCK FALSE
SYMMETRY Symmetry
INVARIANTS NothingTwice
PROPERTIES NothingReopened
