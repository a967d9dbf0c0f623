CONSTANTS
    Never = Never
    NoSigner = NoSigner
    NoInventory = NoInventory
    ScanError = ScanError
    NoPlan = NoPlan
    Nothing = Nothing
    Refused = Refused
    PolicyKey = PolicyKey
    WaiverKey = WaiverKey
    Bundles <- AllBundles
    Drafts <- AllDrafts
    Waivers <- AllWaivers
    MaxTime = 2
    MaxWaivers = 2
    Explicit <- AllInputs
    PerPage = 2
    MaxPages = 2
SPECIFICATION Spec
INVARIANTS
    FloorHolds
    ResolvedByPriority
    WaiversOnlyAnnotate
    WeakeningIsDeclared
    NothingUnseen
    ReplayReproduces
