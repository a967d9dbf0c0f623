CONSTANTS
    r1 = r1
    r2 = r2
    p1 = p1
    p2 = p2
    k1 = k1
    k2 = k2
    Runs = {r1}
    Plans = {p1}
    Keys = {k1}
    PlanOf <- OnePlan
    KeyOf <- OneKey
    OpOf <- AllEnrich
    Attempts = 2
    MaxCount = 1
    Modes <- Live
    Faults = {"error"}
    ReadErrors <- SomeReadErrors
SPECIFICATION Spec
INVARIANTS
    AppliedIsNeverFailed
CHECK_DEADLOCK FALSE
