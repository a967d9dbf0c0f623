CONSTANTS
    r1 = r1
    r2 = r2
    p1 = p1
    p2 = p2
    k1 = k1
    k2 = k2
    Runs = {r1, r2}
    Plans = {p1, p2}
    Keys = {k1}
    PlanOf <- TwoPlans
    KeyOf <- OneKey
    OpOf <- AllEnrich
    Attempts = 2
    MaxCount = 1
    Modes <- Live
    Faults = {"lost", "429", "503", "early", "edit", "withdraw", "transport", "crash"}
    ReadErrors <- SomeReadErrors
SPECIFICATION Spec
INVARIANTS
    FirstPostStateHolds
    ConflictNeverWrites
    OneWritePerKey
    NoStaleOverwrite
PROPERTIES
    ContractHolds
CHECK_DEADLOCK FALSE
