CONSTANTS
    r1 = r1
    r2 = r2
    p1 = p1
    p2 = p2
    k1 = k1
    k2 = k2
    Runs = {r1, r2}
    Plans = {p1, p2}
    Keys = {k1, k2}
    PlanOf <- TwoPlans
    KeyOf <- TwoKeys
    OpOf <- EnrichAndDraft
    Attempts = 3
    MaxCount = 1
    Modes <- NearLive
    Faults = {"lost", "429", "redirect", "503", "error", "early", "garbled", "oversize", "transport", "resolve", "auth", "read", "edit", "withdraw", "sink"}
    ReadErrors <- AllReadErrors
SPECIFICATION FairSpec
CONSTRAINT OnlyOne
INVARIANTS
    PostOnlyWhenCleared
    EventMatchesResult
PROPERTIES
    Termination
CHECK_DEADLOCK FALSE
