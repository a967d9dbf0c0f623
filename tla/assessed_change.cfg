CONSTANTS
    k1 = k1
    k2 = k2
    other = other
    Keys = {k1, k2}
    NoCode = NoCode
    NoLimit = NoLimit
    Never = Never
    NoSigner = NoSigner
    NoInventory = NoInventory
    ScanError = ScanError
    Nothing = Nothing
    TopBlockersLimit = 1
    NextActionsLimit = 2
    Drafts <- AllDrafts
    Bundle <- Pack
    Offers <- AllOffers
    ValidFor = 2
    MaxTime = 2
    MaxArrivals = 3
SPECIFICATION Spec
INVARIANTS
    ProceedIsEarned
    ArrivalOrderIrrelevant
    OwnOutputIsValid
    NothingHidden
PROPERTIES
    DecayIsMonotone
