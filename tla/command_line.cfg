CONSTANTS
    Drafts <- AllDrafts
    Options <- AllOptions
    MaxRuns = 2
    MaxTime = 2
    Ages = {0, 1, NoAge}
    Skews = {0, 1, 2}
    MaxSkew = 1
    NoAge = NoAge
    Policy = Policy
    Commit = Commit
    TrustedKey = TrustedKey
    OtherKey = OtherKey
    NoId = NoId
    Nothing = Nothing
SPECIFICATION Spec
INVARIANTS
    
    OneIssue
    VerifiedIsAuthentic
PROPERTIES
    PushedOnlyWhenCleared
