CONSTANTS
    p1 = p1
    p2 = p2
    Pushes = {p1, p2}
    CorrOf <- OneChange
    FormerOf <- Former
    ContentOf <- Assessments
    References = {0, 1}
    AttachOf <- AllAttach
    FileOf <- OneFile
    Correlations = {"new", "old", "unrelated"}
    Contents = {"first", "second"}
    Files = {"evidence"}
    Overlap = TRUE
    Rewrites = {TRUE, FALSE}
    Histories <- Any
    Faults = {"refused", "early", "broken", "read", "edit", "oversize"}
SPECIFICATION FairSpec
INVARIANTS
    OneIdentity
    CreatesAtMostOne
    SuccessIsStored
    AttachedOnce
PROPERTIES
    Termination
CHECK_DEADLOCK FALSE
