SPECIFICATION PartsSpec
CONSTANTS
    a1 = a1
    a2 = a2
    x = x
    y = y
    z = z
    Absent = Absent
    Artists = {a1, a2, a3}
    Texts = {x, y, z}
    Editors = {e1}
    MaxChanges = 3
    MaxPublications = 1
    Slug <- MCSlug
    Catalogs <- MCCatalogs
    Pages <- MCPages
    DraftValues <- MCDraftValues
    Facts <- MCFacts
    MaxAttempts = 2
    MaxRead = 1
    MaxListed = 2
    Articles <- MCArticles
    article1 = article1
    article2 = article2
    article3 = article3
    Nil = Nil
    MaxKinds = 2
    Delays = {0, 45}
    Acts = {a1, a2}
    Edition = edition
    OtherYear = other
    Undefined = Undefined
    Dates = {d1, d2}
    Workers = {w1, w2}
    Contents = {"x", "y"}
    Urls = {"url", "other url"}
    Years = {"year"}
    Blank = Blank
    NoRequest = NoRequest
    MaxQueued = 2
    MaxNow = 7
    Requests = {r1, r2}
    Submitters = {s1, s2}
    Festivals = {f1, f2}
    Admins = {n1, n2}
    Limit = 1
    Window = 1
    MaxHours = 2
    failure = failure
    manual = manual
    review = review
    adapter = adapter
    byHand = byHand
    Issues = {failure, manual, review}
    Kind <- MCKind
    ConfigOf <- MCConfigOf
    Feedback = {review}
    Configs = {adapter, byHand}
    Values = {v1, v2}
    MaxChecks = 2
    MaxClaims = 3
    MaxEdits = 1
    MaxWork = 4
    None = None
CHECK_DEADLOCK FALSE
INVARIANTS LineupIsSound   QueuesSound
PROPERTIES NoBlindApproval   DecidedOnce NoLostUpdate LeasesRespected
