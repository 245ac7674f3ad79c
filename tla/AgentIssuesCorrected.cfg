SPECIFICATION AgentSpec
CONSTANTS
    failure = failure
    manual = manual
    review = review
    adapter = adapter
    byHand = byHand
    Issues = {failure, manual, review}
    Kind <- MCKind
    ConfigOf <- MCConfigOf
    Feedback = {review}
    Configs = {adapter, byHand}
    Values = {v1, v2}
    MaxChecks = 2
    MaxClaims = 3
    MaxEdits = 1
    MaxWork = 5
    None = None
CHECK_DEADLOCK FALSE
SYMMETRY Symmetry
PROPERTIES CorrectionIsQueued
